---- MODULE Spec2Model ----
(***************************************************************************)
(* Security analysis engine of the GAMX browser extension                  *)
(* (src/security-analyzer.js), its host the background script              *)
(* (src/unnamed/part_009) and the rules dialog and summary of the panel    *)
(* (src/panel.js).                                                          *)
(*                                                                         *)
(* JavaScript strings are sequences of one-character strings, so that      *)
(* includes(), startsWith(), toLowerCase() and the regular expressions are *)
(* computed character by character.  JSON values are tagged records:       *)
(*   [t |-> "undefined"], [t |-> "string", s |-> chars],                   *)
(*   [t |-> "object", e |-> <<[k |-> chars, v |-> value], ...>>]           *)
(* with the entries of an object in insertion order (Object.entries).      *)
(***************************************************************************)
EXTENDS Integers, Sequences, FiniteSets, TLC

VARIABLES
  bundled,             \* content served for security-rules.json (fixed per install)
  rules,               \* SecurityAnalyzer.rules of the background analyzer
  initialized,         \* SecurityAnalyzer.initialized of the background analyzer
  pendingInits,        \* init() calls of the background analyzer awaiting fetch/json
  callFrequency,       \* SecurityAnalyzer.callFrequency: endpoint -> timestamps
  now,                 \* Date.now()
  last,                \* record of the most recent analyzeCall: input, state before, output
  history,             \* every analyzeCall so far: endpoint, time, rate-limit outcome
  lastInit,            \* outcome of the init() that completed most recently
  apiCalls,            \* background: endpoint -> calls and accumulated securityIssues
  pendingRequests,     \* background: requestId -> endpoint, until completion
  requests,            \* the browser's requests: what was sent, which events fired, whether
                       \* the response data was delivered (captured), and when a body was
                       \* first attached to the request's call record (bodyAt: "none",
                       \* "before" or "after" the completion event)
  recording,           \* background: the listeners capture while true (part_009 line 5)
  totalCallsCount,     \* background: calls captured since the last Clear (part_009 line 6)
  endpointOrder,       \* background: the keys of the apiCalls Map, in insertion order
  tab,                 \* the inspected tab: whether its DevTools panel is open, and the
                       \* number of endpoints its page calls in turn (0: any request)
  toPanel,             \* messages from the background in flight to the panel
  apiData,             \* panel: endpoint -> data received from the background
  summary,             \* panel: the badge counts last computed, and the data they were computed from
  storage,             \* chrome.storage.local, key securityRulesConfig
  securityRulesConfig, \* panel: the configuration the rules dialog edits
  panelRules,          \* SecurityAnalyzer.rules of the panel's analyzer
  panelInitialized,    \* SecurityAnalyzer.initialized of the panel's analyzer
  panelPendingInits,   \* init() calls of the panel's analyzer awaiting fetch/json
  saveState,           \* "none", "saving" while saveSecurityRules awaits, "saved"
  dataVersion,         \* background: bumped on CLEAR_DATA (part_009 line 8)
  currentDataVersion,  \* panel: version below which API_CALLS_DATA is stale (panel.js line 15)
  toBackground,        \* port messages from the panel in flight to the background
  cleared              \* Clear clicks confirmed, CLEAR_DATA processed, last request captured before

bgVars == <<apiCalls, pendingRequests, requests, recording, totalCallsCount, endpointOrder, tab>>
panelVars == <<toPanel, apiData, summary, storage, securityRulesConfig, panelRules, panelInitialized,
               panelPendingInits, saveState>>

clearVars == <<dataVersion, currentDataVersion, toBackground, cleared>>

vars == <<bundled, rules, initialized, pendingInits, callFrequency, now, last, history,
          lastInit, bgVars, panelVars, clearVars>>

----------------------------------------------------------------------------
(* Bounds of the model *)

MaxInits == 2         \* init() invocations per behaviour
Threshold == 2        \* insufficient-rate-limiting.threshold of the configuration
TimeWindow == 3       \* insufficient-rate-limiting.timeWindow, in clock ticks
MaxTime == TimeWindow           \* the clock runs from 0 to MaxTime
MaxAnalyses == Threshold + 2    \* analyzeCall invocations per behaviour

----------------------------------------------------------------------------
(* Strings *)

Str ==
  [ GET |-> <<"G", "E", "T">>,
    POST |-> <<"P", "O", "S", "T">>,
    PUT |-> <<"P", "U", "T">>,
    PATCH |-> <<"P", "A", "T", "C", "H">>,
    DELETE |-> <<"D", "E", "L", "E", "T", "E">>,
    post |-> <<"p", "o", "s", "t">>,
    eyJ |-> <<"e", "y", "J">>,
    eyj |-> <<"e", "y", "j">>,
    bearer |-> <<"b", "e", "a", "r", "e", "r">>,
    star |-> <<"*">>,
    true |-> <<"t", "r", "u", "e">>,
    dot |-> <<".">>,
    Authorization |-> <<"A", "u", "t", "h", "o", "r", "i", "z", "a", "t", "i", "o", "n">>,
    authorization |-> <<"a", "u", "t", "h", "o", "r", "i", "z", "a", "t", "i", "o", "n">>,
    AUTHORIZATION |-> <<"A", "U", "T", "H", "O", "R", "I", "Z", "A", "T", "I", "O", "N">>,
    Auth |-> <<"A", "u", "t", "h">>,
    auth |-> <<"a", "u", "t", "h">>,
    ACAO |-> <<"A", "c", "c", "e", "s", "s", "-", "C", "o", "n", "t", "r", "o", "l", "-", "A", "l", "l", "o", "w", "-", "O", "r", "i", "g", "i", "n">>,
    acao |-> <<"a", "c", "c", "e", "s", "s", "-", "c", "o", "n", "t", "r", "o", "l", "-", "a", "l", "l", "o", "w", "-", "o", "r", "i", "g", "i", "n">>,
    ACAC |-> <<"A", "c", "c", "e", "s", "s", "-", "C", "o", "n", "t", "r", "o", "l", "-", "A", "l", "l", "o", "w", "-", "C", "r", "e", "d", "e", "n", "t", "i", "a", "l", "s">>,
    acac |-> <<"a", "c", "c", "e", "s", "s", "-", "c", "o", "n", "t", "r", "o", "l", "-", "a", "l", "l", "o", "w", "-", "c", "r", "e", "d", "e", "n", "t", "i", "a", "l", "s">>,
    XRateLimitLimit |-> <<"X", "-", "R", "a", "t", "e", "L", "i", "m", "i", "t", "-", "L", "i", "m", "i", "t">>,
    xratelimitlimit |-> <<"x", "-", "r", "a", "t", "e", "l", "i", "m", "i", "t", "-", "l", "i", "m", "i", "t">>,
    RateLimitLimit |-> <<"R", "a", "t", "e", "L", "i", "m", "i", "t", "-", "L", "i", "m", "i", "t">>,
    Accept |-> <<"A", "c", "c", "e", "p", "t">>,
    limit |-> <<"l", "i", "m", "i", "t">>,
    page |-> <<"p", "a", "g", "e">>,
    size |-> <<"s", "i", "z", "e">>,
    per_page |-> <<"p", "e", "r", "_", "p", "a", "g", "e">>,
    pageSize |-> <<"p", "a", "g", "e", "S", "i", "z", "e">>,
    login |-> <<"/", "l", "o", "g", "i", "n">>,
    register |-> <<"/", "r", "e", "g", "i", "s", "t", "e", "r">>,
    email |-> <<"e", "m", "a", "i", "l">>,
    userId |-> <<"u", "s", "e", "r", "I", "d">>,
    patch |-> <<"p", "a", "t", "c", "h">>,
    TRUE |-> <<"T", "R", "U", "E">>,
    false |-> <<"f", "a", "l", "s", "e">>,
    origin |-> <<"h", "t", "t", "p", "s", ":", "/", "/", "a">>,
    BearerEyJ |-> <<"B", "e", "a", "r", "e", "r", " ", "e", "y", "J", "h">>,
    bearerEyj |-> <<"b", "e", "a", "r", "e", "r", " ", "e", "y", "j", "h">>,
    Basic |-> <<"B", "a", "s", "i", "c", " ", "d", "X", "N", "l">>,
    tokenEyJ |-> <<"t", "=", "e", "y", "J", "h">>,
    name |-> <<"n", "a", "m", "e">>,
    user |-> <<"u", "s", "e", "r">>,
    Email |-> <<"E", "m", "a", "i", "l">>,
    XToken |-> <<"X", "-", "T", "o", "k", "e", "n">>,
    updatePath |-> <<"/", "a", "p", "i", "/", "u", "p", "d", "a", "t", "e">>,
    registerPath |-> <<"/", "a", "p", "i", "/", "r", "e", "g", "i", "s", "t", "e", "r">>,
    LoginPath |-> <<"/", "a", "p", "i", "/", "L", "o", "g", "i", "n">> ]

UpperCase == <<"A","B","C","D","E","F","G","H","I","J","K","L","M","N","O","P","Q","R","S","T","U","V","W","X","Y","Z">>
LowerCase == <<"a","b","c","d","e","f","g","h","i","j","k","l","m","n","o","p","q","r","s","t","u","v","w","x","y","z">>

toLowerCaseCh(c) ==
  IF \E i \in 1..26 : UpperCase[i] = c
  THEN LowerCase[CHOOSE i \in 1..26 : UpperCase[i] = c]
  ELSE c

toUpperCaseCh(c) ==
  IF \E i \in 1..26 : LowerCase[i] = c
  THEN UpperCase[CHOOSE i \in 1..26 : LowerCase[i] = c]
  ELSE c

toLowerCase(s) == [i \in 1..Len(s) |-> toLowerCaseCh(s[i])]
toUpperCase(s) == [i \in 1..Len(s) |-> toUpperCaseCh(s[i])]

startsWith(s, p) == Len(p) <= Len(s) /\ SubSeq(s, 1, Len(p)) = p
includes(s, p) == \E i \in 0..(Len(s) - Len(p)) : SubSeq(s, i + 1, i + Len(p)) = p

\* /^Bearer\s+eyJ/i : "bearer", one or more blanks, "eyj", all letters in either case
testBearerEyJ(s) ==
  /\ Len(s) >= 10
  /\ toLowerCase(SubSeq(s, 1, 6)) = Str.bearer
  /\ \E k \in 1..(Len(s) - 9) :
       /\ \A j \in 7..(6 + k) : s[j] = " "
       /\ toLowerCase(SubSeq(s, 7 + k, 9 + k)) = Str.eyj

----------------------------------------------------------------------------
(* JSON values and objects used as maps *)

Undefined == [t |-> "undefined"]
JString(s) == [t |-> "string", s |-> s]
JObject(e) == [t |-> "object", e |-> e]
EmptyObject == JObject(<<>>)

\* x || {}
orEmptyObject(x) ==
  IF x.t = "undefined" \/ (x.t = "string" /\ x.s = <<>>) THEN EmptyObject ELSE x

\* obj[key] for a map of strings: the characters of the value, <<>> when the
\* key is absent (undefined and '' are both falsy and every use tests
\* truthiness before use); a later duplicate of a key overwrites an earlier one
getProperty(obj, key) ==
  LET idx == {i \in 1..Len(obj.e) : obj.e[i].k = key}
  IN IF idx = {} THEN <<>>
     ELSE LET i == CHOOSE j \in idx : \A m \in idx : m <= j
          IN IF obj.e[i].v.t = "string" THEN obj.e[i].v.s ELSE <<>>

truthy(s) == s # <<>>
or(a, b) == IF truthy(a) THEN a ELSE b

objectKeys(obj) == [i \in 1..Len(obj.e) |-> obj.e[i].k]

----------------------------------------------------------------------------
(* security-rules.json *)

RuleOrder ==
  << "insecure-http", "cors-misconfiguration", "excessive-data-exposure",
     "insufficient-rate-limiting", "untrusted-client-identity" >>

RuleIds == {RuleOrder[i] : i \in 1..Len(RuleOrder)}

\* One rule entry of the configuration document.  withMessages: the entry
\* carries the optional "message" property; withChecks: the entry of
\* excessive-data-exposure carries its "checks" array.
RuleEntry(r, enabled, withMessages, withChecks) ==
  CASE r = "insecure-http" ->
         [enabled |-> enabled, severity |-> "critical", name |-> "Insecure HTTP",
          message |-> IF withMessages THEN <<"API call over insecure HTTP">> ELSE <<>>]
    [] r = "cors-misconfiguration" ->
         [enabled |-> enabled, severity |-> "high", name |-> "CORS Misconfiguration",
          message |-> IF withMessages THEN <<"Wildcard origin with credentials">> ELSE <<>>]
    [] r = "excessive-data-exposure" ->
         [enabled |-> enabled, severity |-> "low", name |-> "Excessive Data Exposure",
          message |-> <<>>,
          checks |-> IF withChecks
                     THEN [t |-> "array", e |-> <<[message |-> <<"No pagination parameters">>]>>]
                     ELSE Undefined]
    [] r = "insufficient-rate-limiting" ->
         [enabled |-> enabled, severity |-> "medium", name |-> "Insufficient Rate Limiting",
          message |-> IF withMessages THEN <<"High call frequency without rate limiting">> ELSE <<>>,
          threshold |-> Threshold, timeWindow |-> TimeWindow]
    [] r = "untrusted-client-identity" ->
         [enabled |-> enabled, severity |-> "critical", name |-> "Untrusted Client Identity",
          message |-> IF withMessages THEN <<"Client-supplied identity with JWT">> ELSE <<>>,
          excludeEndpoints |-> <<Str.login, Str.register>>,
          identityFields |-> <<Str.email, Str.userId>>]

RulesDoc(enabledSet, withMessages, withChecks) ==
  [r \in RuleIds |-> RuleEntry(r, r \in enabledSet, withMessages, withChecks)]

\* what `await response.json()` can deliver: a document with a rules object,
\* or a document without one (config.rules is undefined)
ConfigDoc(enabledSet, withMessages, withChecks) ==
  [hasRules |-> TRUE, rules |-> RulesDoc(enabledSet, withMessages, withChecks)]

NoRulesDoc == [hasRules |-> FALSE, rules |-> Undefined]

NoRules == Undefined     \* this.rules = null / undefined
isNoRules(R) == "t" \in DOMAIN R

\* A configuration with an entry for every rule of the registry (lines
\* 89-116), in the registry's order, and an entry whose id the registry does
\* not know.
AllRuleOrder ==
  << "sensitive-data-in-url", "custom-rule", "sensitive-headers", "weak-authentication",
     "insecure-http", "missing-response-security-headers", "cors-misconfiguration",
     "pii-in-request-body", "pii-in-response-body", "excessive-data-exposure",
     "sql-injection-risk", "xss-risk", "path-traversal-risk", "insufficient-rate-limiting",
     "weak-password-policy", "verbose-error-messages", "predictable-resource-ids",
     "missing-authentication", "mass-assignment", "unencrypted-sensitive-data",
     "insecure-cookies", "missing-input-validation", "hardcoded-secrets", "open-redirect",
     "ssrf-risk", "debug-endpoints", "untrusted-client-identity" >>

AllRuleIds == {AllRuleOrder[i] : i \in 1..Len(AllRuleOrder)}

\* the properties an entry has besides enabled, severity, name and message
RuleParameters(r) ==
  CASE r = "sensitive-data-in-url" ->
         [patterns |-> << [k |-> <<"a", "p", "i", "_", "k", "e", "y">>, v |-> <<"k", "e", "y", "=">>], [k |-> <<"s", "s", "n">>, v |-> <<"s", "s", "n">>] >>]
    [] r = "sensitive-headers" -> [headers |-> << <<"x", "-", "u", "s", "e", "r", "-", "e", "m", "a", "i", "l">> >>]
    [] r = "weak-authentication" ->
         [checks |-> << [type |-> "basic_auth", pattern |-> <<"B", "a", "s", "i", "c", " ">>, params |-> <<>>,
                         fields |-> <<>>, message |-> <<"B", "a", "s", "i", "c", " ", "a", "u", "t", "h", "e", "n", "t", "i", "c", "a", "t", "i", "o", "n">>],
                        [type |-> "api_key_in_query", pattern |-> <<>>, params |-> << <<"a", "p", "i", "_", "k", "e", "y">> >>,
                         fields |-> <<>>, message |-> <<"A", "P", "I", " ", "k", "e", "y", " ", "i", "n", " ", "q", "u", "e", "r", "y">>],
                        [type |-> "credentials_in_body", pattern |-> <<>>, params |-> <<>>,
                         fields |-> << <<"p", "a", "s", "s", "w", "o", "r", "d">>, <<"s", "e", "c", "r", "e", "t">> >>,
                         message |-> <<"C", "r", "e", "d", "e", "n", "t", "i", "a", "l", "s", " ", "i", "n", " ", "r", "e", "q", "u", "e", "s", "t", " ", "b", "o", "d", "y">>] >>]
    [] r = "missing-response-security-headers" ->
         [headers |-> << <<"X", "-", "C", "o", "n", "t", "e", "n", "t", "-", "T", "y", "p", "e", "-", "O", "p", "t", "i", "o", "n", "s">>, <<"S", "t", "r", "i", "c", "t", "-", "T", "r", "a", "n", "s", "p", "o", "r", "t", "-", "S", "e", "c", "u", "r", "i", "t", "y">> >>]
    [] r = "pii-in-request-body" -> [fields |-> << Str.email, <<"s", "s", "n">> >>]
    [] r = "pii-in-response-body" -> [patterns |-> << [k |-> <<"s", "s", "n">>, v |-> <<"s", "s", "n", ":">>] >>]
    [] r = "sql-injection-risk" -> [patterns |-> << <<"u", "n", "i", "o", "n", " ", "s", "e", "l", "e", "c", "t">>, <<"'", " ", "o", "r", " ">> >>]
    [] r = "xss-risk" -> [patterns |-> << <<"<", "s", "c", "r", "i", "p", "t">>, <<"o", "n", "e", "r", "r", "o", "r", "=">> >>]
    [] r = "path-traversal-risk" -> [patterns |-> << <<".", ".", "/">>, <<"%", "2", "e", "%", "2", "e">> >>]
    [] r = "weak-password-policy" ->
         [checks |-> << [field |-> <<"p", "a", "s", "s", "w", "o", "r", "d">>, min_length |-> 8,
                         message |-> <<"P", "a", "s", "s", "w", "o", "r", "d", " ", "t", "o", "o", " ", "s", "h", "o", "r", "t">>] >>]
    [] r = "verbose-error-messages" ->
         [status_codes |-> <<500>>, patterns |-> << <<"s", "t", "a", "c", "k", " ", "t", "r", "a", "c", "e">>, <<"e", "x", "c", "e", "p", "t", "i", "o", "n">> >>]
    [] r = "predictable-resource-ids" -> [pattern |-> <<"\\", "d", "+">>]
    [] r = "missing-authentication" -> [excludePaths |-> << Str.login, <<"/", "p", "u", "b", "l", "i", "c">> >>]
    [] r = "mass-assignment" -> [sensitiveFields |-> << <<"r", "o", "l", "e">>, <<"i", "s", "A", "d", "m", "i", "n">> >>]
    [] r = "unencrypted-sensitive-data" -> [fields |-> << <<"p", "a", "s", "s", "w", "o", "r", "d">>, <<"c", "a", "r", "d">> >>]
    [] r = "hardcoded-secrets" ->
         [patterns |-> << [k |-> <<"a", "w", "s">>, v |-> <<"A", "K", "I", "A">>], [k |-> <<"p", "r", "i", "v", "a", "t", "e", "_", "k", "e", "y">>, v |-> <<"B", "E", "G", "I", "N">>] >>]
    [] r = "open-redirect" -> [params |-> << <<"r", "e", "d", "i", "r", "e", "c", "t">>, <<"n", "e", "x", "t">> >>]
    [] r = "ssrf-risk" -> [params |-> << <<"u", "r", "l">>, <<"c", "a", "l", "l", "b", "a", "c", "k">> >>]
    [] r = "debug-endpoints" -> [patterns |-> << <<"/", "d", "e", "b", "u", "g">>, <<"/", "a", "d", "m", "i", "n">> >>]
    [] OTHER -> <<>>

RuleSeverity(r) ==
  CASE r \in {"weak-authentication", "sql-injection-risk", "hardcoded-secrets",
              "unencrypted-sensitive-data"} -> "critical"
    [] r \in {"sensitive-data-in-url", "xss-risk", "path-traversal-risk", "ssrf-risk",
              "missing-authentication", "pii-in-request-body", "pii-in-response-body",
              "mass-assignment"} -> "high"
    [] r \in {"sensitive-headers", "missing-response-security-headers", "weak-password-policy",
              "verbose-error-messages", "insecure-cookies", "open-redirect",
              "debug-endpoints"} -> "medium"
    [] OTHER -> "low"

\* f @@ g for records
merge(f, g) == [x \in (DOMAIN f) \cup (DOMAIN g) |-> IF x \in DOMAIN f THEN f[x] ELSE g[x]]

\* one entry of the full configuration; the five rules above keep their entries
FullRuleEntry(r, enabled) ==
  IF r \in RuleIds THEN RuleEntry(r, enabled, TRUE, TRUE)
  ELSE merge([enabled |-> enabled, severity |-> RuleSeverity(r), name |-> r,
              message |-> <<"F", "i", "n", "d", "i", "n", "g", " ", "o", "f", " ", "a", " ", "r", "u", "l", "e">>], RuleParameters(r))

FullConfigDoc(enabledSet) ==
  [hasRules |-> TRUE, rules |-> [r \in AllRuleIds |-> FullRuleEntry(r, r \in enabledSet)]]

----------------------------------------------------------------------------
(* Call records (callDetails) *)

CallRecord(method, protocol, pathname, allHeaders, queryParams, requestBody, status, responseHeaders, responseBody) ==
  [ url |-> [protocol |-> protocol, pathname |-> pathname],
    method |-> method, allHeaders |-> allHeaders, queryParams |-> queryParams,
    requestBody |-> requestBody, status |-> status,
    responseHeaders |-> responseHeaders, responseBody |-> responseBody,
    requestId |-> 0, securityIssues |-> <<>> ]

Header(k, v) == [k |-> k, v |-> JString(v)]

----------------------------------------------------------------------------
(* Helpers of SecurityAnalyzer *)

RECURSIVE search(_, _, _, _)
RECURSIVE searchEntries(_, _, _, _, _)

searchEntries(e, i, path, fieldNames, includeValues) ==
  IF i > Len(e) THEN <<>>
  ELSE
    LET key == e[i].k
        value == e[i].v
        currentPath == IF path # <<>> THEN path \o Str.dot \o key ELSE key
        matches == \E f \in 1..Len(fieldNames) :
                      includes(toLowerCase(key), toLowerCase(fieldNames[f]))
        found == IF matches
                 THEN << IF includeValues THEN [path |-> currentPath, value |-> value]
                                          ELSE currentPath >>
                 ELSE <<>>
        nested == IF value.t = "object" THEN search(value, currentPath, fieldNames, includeValues)
                  ELSE <<>>
    IN found \o nested \o searchEntries(e, i + 1, path, fieldNames, includeValues)

search(object, path, fieldNames, includeValues) ==
  IF object.t # "object" THEN <<>>
  ELSE searchEntries(object.e, 1, path, fieldNames, includeValues)

findFieldsInObject(obj, fieldNames, includeValues) ==
  search(obj, <<>>, fieldNames, includeValues)

----------------------------------------------------------------------------
(* Values, patterns and value classification *)

JNumber(n) == [t |-> "number", n |-> n]

\* new RegExp(pattern, 'i').test(value) and value.match(new RegExp(pattern, 'gi'))
\* for the patterns of the configurations below, which are literal texts: as
\* a regular expression such a pattern matches the strings that contain it,
\* letter case ignored
testIgnoreCase(pattern, value) == includes(toLowerCase(value), toLowerCase(pattern))

\* new RegExp(pattern).test(value), pattern a literal text
testLiteral(pattern, value) == includes(value, pattern)

\* Object.values(obj): the values of the entries, in order
objectValues(obj) == [i \in 1..Len(obj.e) |-> obj.e[i].v]

\* getDeepValues(obj), lines 1055-1072: the leaves of the object, in order
RECURSIVE extract(_)
RECURSIVE extractEntries(_, _)
extractEntries(e, i) ==
  IF i > Len(e) THEN <<>>
  ELSE (IF e[i].v.t = "object" THEN extract(e[i].v)
        ELSE IF e[i].v.t = "undefined" THEN <<>> ELSE <<e[i].v>>) \o extractEntries(e, i + 1)

extract(object) == IF object.t # "object" THEN <<>> ELSE extractEntries(object.e, 1)

getDeepValues(obj) == extract(obj)

Digits == {"0", "1", "2", "3", "4", "5", "6", "7", "8", "9"}
Letters == {UpperCase[i] : i \in 1..26} \cup {LowerCase[i] : i \in 1..26}
Base64Chars == Letters \cup Digits \cup {"+", "/", "="}         \* [A-Za-z0-9+/=]
HexChars == Digits \cup {"a", "b", "c", "d", "e", "f", "A", "B", "C", "D", "E", "F"}
UrlSafeChars == Letters \cup Digits \cup {"_", "-"}             \* [A-Za-z0-9_-]
WordChars == Letters \cup Digits \cup {"_"}                     \* \w
LongChars == Base64Chars \cup {"_", "-"}                        \* [A-Za-z0-9+/=_-]

\* /^[set]+$/
allOf(s, set) == Len(s) > 0 /\ \A i \in 1..Len(s) : s[i] \in set

Base64MinLength == 32     \* line 1022
HexMinLength == 64        \* line 1027
LongMinLength == 40       \* line 1047

\* mutant: only the separator form counts as encrypted
isEncryptedOrHashed_mut(value) ==
  /\ value.t = "string"
  /\ \E k \in 2..(Len(value.s) - 1) :
       /\ value.s[k] = "|"
       /\ allOf(SubSeq(value.s, 1, k - 1), Base64Chars)
       /\ allOf(SubSeq(value.s, k + 1, Len(value.s)), Base64Chars)

\* isEncryptedOrHashed(value), lines 1009-1050
isEncryptedOrHashed(value) ==
  IF value.t # "string" THEN FALSE
  ELSE
    LET s == value.s
        n == Len(s)
    IN /\ n > 0
       /\ \/ \E k \in 2..(n - 1) :                                      \* 1
               /\ s[k] = "|"
               /\ allOf(SubSeq(s, 1, k - 1), Base64Chars)
               /\ allOf(SubSeq(s, k + 1, n), Base64Chars)
          \/ /\ n >= Base64MinLength /\ allOf(s, Base64Chars)           \* 2
             /\ (includes(s, <<"=">>) \/ n % 4 = 0)
          \/ n >= HexMinLength /\ allOf(s, HexChars)                    \* 3
          \/ \E i \in 2..(n - 3) : \E j \in (i + 2)..(n - 1) :          \* 4
               /\ s[i] = "." /\ s[j] = "."
               /\ allOf(SubSeq(s, 1, i - 1), UrlSafeChars)
               /\ allOf(SubSeq(s, i + 1, j - 1), UrlSafeChars)
               /\ allOf(SubSeq(s, j + 1, n), UrlSafeChars)
          \/ /\ n >= 7 /\ s[1] = "$" /\ s[2] = "2" /\ s[3] \in {"a", "b", "y"}   \* 5
             /\ s[4] = "$" /\ s[5] \in Digits /\ s[6] \in Digits /\ s[7] = "$"
          \/ /\ n >= 3 /\ s[1] = "$"                                    \* 6
             /\ \E k \in 3..n : s[k] = "$" /\ \A j \in 2..(k - 1) : s[j] \in WordChars
          \/ n >= LongMinLength /\ allOf(s, LongChars)                  \* 7

\* findFieldValue(obj, fieldName), lines 989-1004; null is Undefined
RECURSIVE findFieldValue(_, _)
RECURSIVE findFieldValueFrom(_, _, _)
findFieldValueFrom(e, i, fieldName) ==
  IF i > Len(e) THEN Undefined
  ELSE IF toLowerCase(e[i].k) = toLowerCase(fieldName) THEN e[i].v
  ELSE LET found == IF e[i].v.t = "object" THEN findFieldValue(e[i].v, fieldName)
                    ELSE Undefined
       IN IF found.t # "undefined" THEN found
          ELSE findFieldValueFrom(e, i + 1, fieldName)

\* mutant: the keys of the object itself are all compared before any nested
\* value is searched
findFieldValue_mut(obj, fieldName) ==
  IF obj.t # "object" THEN Undefined
  ELSE LET own == SelectSeq(obj.e, LAMBDA en : toLowerCase(en.k) = toLowerCase(fieldName))
       IN IF own # <<>> THEN own[1].v ELSE findFieldValueFrom(obj.e, 1, fieldName)

findFieldValue(obj, fieldName) ==
  IF obj.t # "object" THEN Undefined ELSE findFieldValueFrom(obj.e, 1, fieldName)

\* context.url as text: the scheme, a host, the path
href(url) == (IF url.protocol = "http:" THEN <<"h", "t", "t", "p", ":", "/", "/">> ELSE <<"h", "t", "t", "p", "s", ":", "/", "/">>) \o <<"h">> \o url.pathname

----------------------------------------------------------------------------
(* Rule checkers.  Each takes the rule set R, the context built by          *)
(* analyzeCall, the rate table and the clock, and yields the issues it      *)
(* returns, the rate table it leaves and whether it threw.                  *)

Returned(issues, freq) == [issues |-> issues, freq |-> freq, threw |-> FALSE]
Thrown(freq) == [issues |-> <<>>, freq |-> freq, threw |-> TRUE]

\* mutant: the issue is reported only for the first call to an endpoint
checkInsecureHttp_mut(R, context, freq, t) ==
  LET rule == R["insecure-http"]
  IN IF context.url.protocol = "http:"
        /\ <<context.method, context.url.pathname>> \notin DOMAIN freq
     THEN Returned(<< [message |-> rule.message,
                       details |-> [protocol |-> "http"],
                       location |-> "protocol"] >>, freq)
     ELSE Returned(<<>>, freq)

checkInsecureHttp(R, context, freq, t) ==
  LET rule == R["insecure-http"]
  IN IF context.url.protocol = "http:"
     THEN Returned(<< [message |-> rule.message,
                       details |-> [protocol |-> "http"],
                       location |-> "protocol"] >>, freq)
     ELSE Returned(<<>>, freq)

\* mutant: the credentials header is not looked at
corsCondition_mut(acao, acac) == acao = Str.star

\* line 287: acao === '*' && acac && acac.toLowerCase() === 'true'
corsCondition(acao, acac) == acao = Str.star /\ truthy(acac) /\ toLowerCase(acac) = Str.true

checkCorsMisconfiguration(R, context, freq, t) ==
  LET responseHeaders == orEmptyObject(context.callDetails.responseHeaders)
      acao == or(getProperty(responseHeaders, Str.ACAO), getProperty(responseHeaders, Str.acao))
      acac == or(getProperty(responseHeaders, Str.ACAC), getProperty(responseHeaders, Str.acac))
  IN IF corsCondition(acao, acac)
     THEN Returned(<< [message |-> R["cors-misconfiguration"].message,
                       details |-> [acao |-> acao, acac |-> acac],
                       location |-> "response-headers"] >>, freq)
     ELSE Returned(<<>>, freq)

PaginationNames == {Str.limit, Str.page, Str.size, Str.per_page, Str.pageSize}

checkExcessiveDataExposure(R, context, freq, t) ==
  LET rule == R["excessive-data-exposure"]
      keys == objectKeys(context.queryParams)
      hasLimit == \E i \in 1..Len(keys) : toLowerCase(keys[i]) \in PaginationNames
  IN IF context.method = Str.GET /\ ~hasLimit
     THEN IF rule.checks.t = "undefined"
          THEN Thrown(freq)           \* rule.checks[0] of undefined: TypeError
          ELSE Returned(<< [message |-> rule.checks.e[1].message,
                            details |-> [recommendation |-> "pagination"],
                            location |-> "query"] >>, freq)
     ELSE Returned(<<>>, freq)

\* mutant: the threshold comparison is >= instead of >
checkRateLimiting_mut(R, context, freq, t) ==
  LET rule == R["insufficient-rate-limiting"]
      endpoint == <<context.method, context.url.pathname>>
      calls == (IF endpoint \in DOMAIN freq THEN freq[endpoint] ELSE <<>>) \o <<t>>
      inWindow(time) == t - time < rule.timeWindow
      recentCalls == SelectSeq(calls, inWindow)
      freq2 == [e \in (DOMAIN freq) \cup {endpoint} |->
                  IF e = endpoint THEN recentCalls ELSE freq[e]]
      hasRateLimitHeaders ==
        or(getProperty(context.headers, Str.XRateLimitLimit),
           or(getProperty(context.headers, Str.xratelimitlimit),
              getProperty(context.headers, Str.RateLimitLimit)))
  IN IF Len(recentCalls) >= rule.threshold /\ ~truthy(hasRateLimitHeaders)
     THEN Returned(<< [message |-> rule.message,
                       details |-> [callCount |-> Len(recentCalls),
                                    threshold |-> rule.threshold,
                                    timeWindow |-> rule.timeWindow],
                       location |-> "general"] >>, freq2)
     ELSE Returned(<<>>, freq2)

\* mutant: the timestamp is recorded once per exchange, at its request phase
checkRateLimiting_exchange(R, context, freq, t) ==
  LET rule == R["insufficient-rate-limiting"]
      endpoint == <<context.method, context.url.pathname>>
      calls == (IF endpoint \in DOMAIN freq THEN freq[endpoint] ELSE <<>>)
               \o (IF context.callDetails.status = 0 THEN <<t>> ELSE <<>>)
      inWindow(time) == t - time < rule.timeWindow
      recentCalls == SelectSeq(calls, inWindow)
      freq2 == [e \in (DOMAIN freq) \cup {endpoint} |->
                  IF e = endpoint THEN recentCalls ELSE freq[e]]
      hasRateLimitHeaders ==
        or(getProperty(context.headers, Str.XRateLimitLimit),
           or(getProperty(context.headers, Str.xratelimitlimit),
              getProperty(context.headers, Str.RateLimitLimit)))
  IN IF Len(recentCalls) > rule.threshold /\ ~truthy(hasRateLimitHeaders)
     THEN Returned(<< [message |-> rule.message,
                       details |-> [callCount |-> Len(recentCalls),
                                    threshold |-> rule.threshold,
                                    timeWindow |-> rule.timeWindow],
                       location |-> "general"] >>, freq2)
     ELSE Returned(<<>>, freq2)

\* mutant: the list is stored as pushed, timestamps outside the window are kept
checkRateLimiting_unfiltered(R, context, freq, t) ==
  LET rule == R["insufficient-rate-limiting"]
      endpoint == <<context.method, context.url.pathname>>
      calls == (IF endpoint \in DOMAIN freq THEN freq[endpoint] ELSE <<>>) \o <<t>>
      inWindow(time) == t - time < rule.timeWindow
      recentCalls == SelectSeq(calls, inWindow)
      freq2 == [e \in (DOMAIN freq) \cup {endpoint} |->
                  IF e = endpoint THEN calls ELSE freq[e]]
      hasRateLimitHeaders ==
        or(getProperty(context.headers, Str.XRateLimitLimit),
           or(getProperty(context.headers, Str.xratelimitlimit),
              getProperty(context.headers, Str.RateLimitLimit)))
  IN IF Len(recentCalls) > rule.threshold /\ ~truthy(hasRateLimitHeaders)
     THEN Returned(<< [message |-> rule.message,
                       details |-> [callCount |-> Len(recentCalls),
                                    threshold |-> rule.threshold,
                                    timeWindow |-> rule.timeWindow],
                       location |-> "general"] >>, freq2)
     ELSE Returned(<<>>, freq2)

checkRateLimiting(R, context, freq, t) ==
  LET rule == R["insufficient-rate-limiting"]
      endpoint == <<context.method, context.url.pathname>>
      calls == (IF endpoint \in DOMAIN freq THEN freq[endpoint] ELSE <<>>) \o <<t>>
      inWindow(time) == t - time < rule.timeWindow
      recentCalls == SelectSeq(calls, inWindow)
      freq2 == [e \in (DOMAIN freq) \cup {endpoint} |->
                  IF e = endpoint THEN recentCalls ELSE freq[e]]
      hasRateLimitHeaders ==
        or(getProperty(context.headers, Str.XRateLimitLimit),
           or(getProperty(context.headers, Str.xratelimitlimit),
              getProperty(context.headers, Str.RateLimitLimit)))
  IN IF Len(recentCalls) > rule.threshold /\ ~truthy(hasRateLimitHeaders)
     THEN Returned(<< [message |-> rule.message,
                       details |-> [callCount |-> Len(recentCalls),
                                    threshold |-> rule.threshold,
                                    timeWindow |-> rule.timeWindow],
                       location |-> "general"] >>, freq2)
     ELSE Returned(<<>>, freq2)

\* mutant: only the case-sensitive substring test is made
hasJWT_mut(authHeader) == truthy(authHeader) /\ includes(authHeader, Str.eyJ)

\* lines 922-926
hasJWT(authHeader) ==
  /\ truthy(authHeader)
  /\ \/ testBearerEyJ(authHeader)
     \/ startsWith(authHeader, Str.eyJ)
     \/ includes(authHeader, Str.eyJ)

checkUntrustedClientIdentity(R, context, freq, t) ==
  LET rule == R["untrusted-client-identity"]
      headers == context.headers
      requestBody == context.requestBody
      urlPath == toLowerCase(context.url.pathname)
      method == or(context.method, Str.GET)
      isExcluded == \E i \in 1..Len(rule.excludeEndpoints) :
                       includes(urlPath, toLowerCase(rule.excludeEndpoints[i]))
      authHeader ==
        or(getProperty(headers, Str.Authorization),
           or(getProperty(headers, Str.authorization),
              or(getProperty(headers, Str.AUTHORIZATION),
                 or(getProperty(headers, Str.Auth), getProperty(headers, Str.auth)))))
      foundFields == findFieldsInObject(requestBody, rule.identityFields, FALSE)
  IN IF toUpperCase(method) \notin {Str.POST, Str.PUT, Str.PATCH} THEN Returned(<<>>, freq)
     ELSE IF isExcluded THEN Returned(<<>>, freq)
     ELSE IF requestBody.t # "object" THEN Returned(<<>>, freq)
     ELSE IF hasJWT(authHeader) /\ Len(foundFields) > 0
          THEN Returned(<< [message |-> rule.message,
                            details |-> [fields |-> foundFields],
                            location |-> "body"] >>, freq)
          ELSE Returned(<<>>, freq)

----------------------------------------------------------------------------
(* The other checkers of the registry *)

\* a.join(', ')
RECURSIVE join(_)
join(a) == IF Len(a) = 0 THEN <<>>
           ELSE IF Len(a) = 1 THEN a[1]
           ELSE a[1] \o <<",", " ">> \o join(Tail(a))

\* lines 124-147; details carries the pattern name (matchCount and example,
\* which depend on the matched text only, are left out)
checkSensitiveDataInUrl(R, context, freq, t) ==
  LET rule == R["sensitive-data-in-url"]
      fullUrl == href(context.url)
      matching == SelectSeq(rule.patterns, LAMBDA p : testIgnoreCase(p.v, fullUrl))
  IN Returned([i \in 1..Len(matching) |->
                 [message |-> <<"S", "e", "n", "s", "i", "t", "i", "v", "e", " ", "d", "a", "t", "a", " ", "d", "e", "t", "e", "c", "t", "e", "d", " ", "i", "n", " ", "U", "R", "L", ":", " ">> \o matching[i].k,
                  details |-> [type |-> matching[i].k],
                  location |-> "url"]], freq)

\* lines 152-173
checkSensitiveHeaders(R, context, freq, t) ==
  LET rule == R["sensitive-headers"]
      names == objectKeys(context.headers)
      sensitive(name) == \E i \in 1..Len(rule.headers) :
                            includes(toLowerCase(name), rule.headers[i])
      found == SelectSeq(names, sensitive)
  IN Returned([i \in 1..Len(found) |->
                 [message |-> <<"S", "e", "n", "s", "i", "t", "i", "v", "e", " ", "d", "a", "t", "a", " ", "i", "n", " ", "h", "e", "a", "d", "e", "r", ":", " ">> \o found[i],
                  details |-> [header |-> found[i]],
                  location |-> "headers"]], freq)

\* lines 194-203: the parameters of the check that some query key contains
foundQueryParams(check, queryParams) ==
  LET keys == objectKeys(queryParams)
  IN SelectSeq(check.params,
       LAMBDA param : \E i \in 1..Len(keys) : includes(toLowerCase(keys[i]), param))

\* lines 209-215: the credential fields of the body whose value is not
\* classified as encrypted or hashed
unencryptedFields(check, requestBody) ==
  SelectSeq(findFieldsInObject(requestBody, check.fields, TRUE),
            LAMBDA item : ~isEncryptedOrHashed(item.value))

\* lines 185-229: the issues of one entry of rule.checks
weakAuthenticationCheck(check, context) ==
  LET authHeader == or(getProperty(context.headers, Str.Authorization),
                       getProperty(context.headers, Str.authorization))
      basic == IF check.type = "basic_auth" /\ truthy(authHeader)
                  /\ testLiteral(check.pattern, authHeader)
               THEN << [message |-> check.message, details |-> [type |-> "basic_auth"],
                        location |-> "headers"] >>
               ELSE <<>>
      params == foundQueryParams(check, context.queryParams)
      apiKey == IF check.type = "api_key_in_query" /\ Len(params) > 0
                THEN << [message |-> check.message, details |-> [params |-> params],
                         location |-> "query"] >>
                ELSE <<>>
      fields == unencryptedFields(check, context.requestBody)
      credentials == IF check.type = "credentials_in_body" /\ context.requestBody.t = "object"
                        /\ Len(fields) > 0
                     THEN << [message |-> check.message,
                              details |-> [fields |-> [i \in 1..Len(fields) |-> fields[i].path]],
                              location |-> "body"] >>
                     ELSE <<>>
  IN basic \o apiKey \o credentials

RECURSIVE weakAuthenticationChecks(_, _, _)
weakAuthenticationChecks(checks, i, context) ==
  IF i > Len(checks) THEN <<>>
  ELSE weakAuthenticationCheck(checks[i], context) \o weakAuthenticationChecks(checks, i + 1, context)

\* lines 178-233
checkWeakAuthentication(R, context, freq, t) ==
  Returned(weakAuthenticationChecks(R["weak-authentication"].checks, 1, context), freq)

\* lines 259-264: responseHeaders || {}, then the configured headers that
\* are not among its names
missingHeaders(rule, callDetails) ==
  LET headerNames == objectKeys(orEmptyObject(callDetails.responseHeaders))
  IN SelectSeq(rule.headers, LAMBDA h :
       ~\E i \in 1..Len(headerNames) : toLowerCase(headerNames[i]) = toLowerCase(h))

\* lines 256-275
checkMissingResponseSecurityHeaders(R, context, freq, t) ==
  LET missing == missingHeaders(R["missing-response-security-headers"], context.callDetails)
  IN IF Len(missing) > 0
     THEN Returned(<< [message |-> <<"M", "i", "s", "s", "i", "n", "g", " ", "r", "e", "c", "o", "m", "m", "e", "n", "d", "e", "d", " ", "s", "e", "c", "u", "r", "i", "t", "y", " ", "h", "e", "a", "d", "e", "r", "s", ":", " ">> \o join(missing),
                       details |-> [missingHeaders |-> missing],
                       location |-> "response-headers"] >>, freq)
     ELSE Returned(<<>>, freq)

\* lines 304-322
checkPiiInRequestBody(R, context, freq, t) ==
  LET rule == R["pii-in-request-body"]
      foundFields == findFieldsInObject(context.requestBody, rule.fields, FALSE)
  IN IF context.requestBody.t = "object" /\ Len(foundFields) > 0
     THEN Returned(<< [message |-> <<"P", "I", "I", " ", "d", "e", "t", "e", "c", "t", "e", "d", " ", "i", "n", " ", "r", "e", "q", "u", "e", "s", "t", " ", "b", "o", "d", "y", ":", " ">> \o join(foundFields),
                       details |-> [fields |-> foundFields],
                       location |-> "body"] >>, freq)
     ELSE Returned(<<>>, freq)

\* lines 363-378, 396-411 and 430-445: value.forEach over pattern.forEach,
\* one issue per pair of a string value and a pattern that matches it
RECURSIVE patternIssues(_, _, _, _)

\* mutant: pattern.forEach over the values, one issue per pattern that some
\* string value matches, with the first such value as the sample
patternIssues_mut(values, i, patterns, message) ==
  LET texts == SelectSeq(SubSeq(values, i, Len(values)), LAMBDA v : v.t = "string")
      matching == SelectSeq(patterns, LAMBDA p :
                    \E k \in 1..Len(texts) : testIgnoreCase(p, texts[k].s))
  IN [k \in 1..Len(matching) |->
        [message |-> message,
         details |-> [pattern |-> matching[k],
                      sample |-> SelectSeq(texts, LAMBDA v : testIgnoreCase(matching[k], v.s))[1].s],
         location |-> "parameters"]]

patternIssues(values, i, patterns, message) ==
  IF i > Len(values) THEN <<>>
  ELSE (IF values[i].t = "string"
        THEN LET matching == SelectSeq(patterns, LAMBDA p : testIgnoreCase(p, values[i].s))
             IN [k \in 1..Len(matching) |->
                   [message |-> message,
                    details |-> [pattern |-> matching[k], sample |-> values[i].s],
                    location |-> "parameters"]]
        ELSE <<>>) \o patternIssues(values, i + 1, patterns, message)

\* lines 352-380
checkSqlInjectionRisk(R, context, freq, t) ==
  Returned(patternIssues(objectValues(context.queryParams) \o getDeepValues(context.requestBody),
                         1, R["sql-injection-risk"].patterns,
                         <<"P", "o", "t", "e", "n", "t", "i", "a", "l", " ", "S", "Q", "L", " ", "i", "n", "j", "e", "c", "t", "i", "o", "n", " ", "p", "a", "t", "t", "e", "r", "n", " ", "d", "e", "t", "e", "c", "t", "e", "d">>), freq)

\* lines 385-413
checkXssRisk(R, context, freq, t) ==
  Returned(patternIssues(objectValues(context.queryParams) \o getDeepValues(context.requestBody),
                         1, R["xss-risk"].patterns,
                         <<"P", "o", "t", "e", "n", "t", "i", "a", "l", " ", "X", "S", "S", " ", "p", "a", "t", "t", "e", "r", "n", " ", "d", "e", "t", "e", "c", "t", "e", "d">>), freq)

\* lines 418-447
checkPathTraversalRisk(R, context, freq, t) ==
  Returned(patternIssues(<<JString(href(context.url))>> \o objectValues(context.queryParams)
                           \o getDeepValues(context.requestBody),
                         1, R["path-traversal-risk"].patterns,
                         <<"P", "o", "t", "e", "n", "t", "i", "a", "l", " ", "p", "a", "t", "h", " ", "t", "r", "a", "v", "e", "r", "s", "a", "l", " ", "p", "a", "t", "t", "e", "r", "n", " ", "d", "e", "t", "e", "c", "t", "e", "d">>), freq)

DigitChars == <<"0", "1", "2", "3", "4", "5", "6", "7", "8", "9">>

\* String(n) for a natural number
RECURSIVE numberToString(_)
numberToString(n) ==
  IF n < 10 THEN <<DigitChars[n + 1]>>
  ELSE numberToString(n \div 10) \o <<DigitChars[(n % 10) + 1]>>

\* parseInt(s) for a text of digits
RECURSIVE parseInt(_)
parseInt(s) ==
  IF Len(s) = 0 THEN 0
  ELSE 10 * parseInt(SubSeq(s, 1, Len(s) - 1))
       + (CHOOSE d \in 0..9 : DigitChars[d + 1] = s[Len(s)])

\* JSON.stringify(value) for strings without characters to escape
RECURSIVE stringify(_)
RECURSIVE stringifyEntries(_, _)
stringifyEntries(e, i) ==
  IF i > Len(e) THEN <<>>
  ELSE (IF i > 1 THEN <<",">> ELSE <<>>) \o <<"\"">> \o e[i].k \o <<"\"", ":">> \o stringify(e[i].v)
       \o stringifyEntries(e, i + 1)

stringify(value) ==
  CASE value.t = "string" -> <<"\"">> \o value.s \o <<"\"">>
    [] value.t = "number" -> numberToString(value.n)
    [] value.t = "object" -> <<"{">> \o stringifyEntries(value.e, 1) \o <<"}">>
    [] OTHER -> <<>>

\* lines 500-513: the issues of one entry of rule.checks
weakPasswordCheck(check, requestBody) ==
  LET passwordValue == findFieldValue(requestBody, check.field)
  IN IF passwordValue.t = "string" /\ truthy(passwordValue.s)
        /\ Len(passwordValue.s) < check.min_length
     THEN << [message |-> check.message,
              details |-> [actualLength |-> Len(passwordValue.s),
                           requiredLength |-> check.min_length],
              location |-> "body"] >>
     ELSE <<>>

RECURSIVE weakPasswordChecks(_, _, _)
weakPasswordChecks(checks, i, requestBody) ==
  IF i > Len(checks) THEN <<>>
  ELSE weakPasswordCheck(checks[i], requestBody) \o weakPasswordChecks(checks, i + 1, requestBody)

\* lines 493-517
checkWeakPasswordPolicy(R, context, freq, t) ==
  IF context.requestBody.t = "object"
  THEN Returned(weakPasswordChecks(R["weak-password-policy"].checks, 1, context.requestBody), freq)
  ELSE Returned(<<>>, freq)

\* mutant: the sample is taken of callDetails.responseBody before the
\* default and the guards of lines 526-527, a TypeError when it is undefined
checkVerboseErrors_mut(R, context, freq, t) ==
  LET rule == R["verbose-error-messages"]
      status == context.callDetails.status
      body == context.callDetails.responseBody
  IN IF body.t # "string" THEN Thrown(freq)
     ELSE IF /\ status # 0
             /\ \E i \in 1..Len(rule.status_codes) : rule.status_codes[i] = status
             /\ \E i \in 1..Len(rule.patterns) : testIgnoreCase(rule.patterns[i], body.s)
     THEN Returned(<< [message |-> rule.message \o <<" ", "(", "S", "t", "a", "t", "u", "s", ":", " ">> \o numberToString(status) \o <<")">>,
                       details |-> [status |-> status, sample |-> body.s],
                       location |-> "response-body"] >>, freq)
     ELSE Returned(<<>>, freq)

\* lines 522-543; responseBody || '' is the empty text when the call has
\* no response body
checkVerboseErrors(R, context, freq, t) ==
  LET rule == R["verbose-error-messages"]
      status == context.callDetails.status
      responseBody == context.callDetails.responseBody
      body == IF responseBody.t = "undefined" THEN JString(<<>>) ELSE responseBody
  IN IF /\ status # 0
        /\ \E i \in 1..Len(rule.status_codes) : rule.status_codes[i] = status
        /\ body.t = "string"
        /\ \E i \in 1..Len(rule.patterns) : testIgnoreCase(rule.patterns[i], body.s)
     THEN Returned(<< [message |-> rule.message \o <<" ", "(", "S", "t", "a", "t", "u", "s", ":", " ">> \o numberToString(status) \o <<")">>,
                       details |-> [status |-> status, sample |-> body.s],
                       location |-> "response-body"] >>, freq)
     ELSE Returned(<<>>, freq)

\* urlPath.match(new RegExp(rule.pattern, 'g')) for the pattern \d+ : the
\* maximal runs of digits of the path, from position i on
RECURSIVE digitRuns(_, _)
digitRuns(path, i) ==
  IF i > Len(path) THEN <<>>
  ELSE IF path[i] \notin Digits THEN digitRuns(path, i + 1)
  ELSE LET end == CHOOSE j \in i..Len(path) :
                    /\ \A k \in i..j : path[k] \in Digits
                    /\ (j = Len(path) \/ path[j + 1] \notin Digits)
       IN <<SubSeq(path, i, end)>> \o digitRuns(path, end + 1)

\* lines 548-574
checkPredictableIds(R, context, freq, t) ==
  LET rule == R["predictable-resource-ids"]
      matches == digitRuns(context.url.pathname, 1)
      simpleNumericIds == SelectSeq(matches, LAMBDA m : Len(m) <= 8 /\ parseInt(m) < 1000000)
  IN IF Len(simpleNumericIds) > 0
     THEN Returned(<< [message |-> rule.message, details |-> [ids |-> simpleNumericIds],
                       location |-> "path"] >>, freq)
     ELSE Returned(<<>>, freq)

\* lines 579-608
checkMissingAuthentication(R, context, freq, t) ==
  LET rule == R["missing-authentication"]
      urlPath == context.url.pathname
      isExcluded == \E i \in 1..Len(rule.excludePaths) :
                       includes(toLowerCase(urlPath), toLowerCase(rule.excludePaths[i]))
      hasAuth == \E name \in {Str.Authorization, Str.authorization, <<"X", "-", "A", "P", "I", "-", "K", "e", "y">>, <<"x", "-", "a", "p", "i", "-", "k", "e", "y">>,
                              <<"C", "o", "o", "k", "i", "e">>, <<"c", "o", "o", "k", "i", "e">>} :
                    truthy(getProperty(context.headers, name))
  IN IF ~isExcluded /\ ~hasAuth
     THEN Returned(<< [message |-> rule.message, details |-> [path |-> urlPath],
                       location |-> "headers"] >>, freq)
     ELSE Returned(<<>>, freq)

\* lines 613-634
checkMassAssignment(R, context, freq, t) ==
  LET rule == R["mass-assignment"]
      foundFields == findFieldsInObject(context.requestBody, rule.sensitiveFields, FALSE)
  IN IF context.requestBody.t = "object" /\ Len(foundFields) > 0
     THEN Returned(<< [message |-> rule.message, details |-> [fields |-> foundFields],
                       location |-> "body"] >>, freq)
     ELSE Returned(<<>>, freq)

\* lines 639-660
checkUnencryptedSensitiveData(R, context, freq, t) ==
  LET rule == R["unencrypted-sensitive-data"]
      foundFields == findFieldsInObject(context.requestBody, rule.fields, FALSE)
  IN IF /\ startsWith(href(context.url), <<"h", "t", "t", "p", ":", "/", "/">>)
        /\ context.requestBody.t = "object"
        /\ Len(foundFields) > 0
     THEN Returned(<< [message |-> rule.message \o <<":", " ">> \o join(foundFields),
                       details |-> [fields |-> foundFields, protocol |-> "HTTP"],
                       location |-> "body"] >>, freq)
     ELSE Returned(<<>>, freq)

\* /;\s*attribute/i : a semicolon, blanks, the attribute in either letter case
hasAttribute(cookie, attribute) ==
  \E i \in 1..Len(cookie) : \E j \in (i + 1)..(Len(cookie) - Len(attribute) + 1) :
     /\ cookie[i] = ";"
     /\ \A k \in (i + 1)..(j - 1) : cookie[k] = " "
     /\ toLowerCase(SubSeq(cookie, j, j + Len(attribute) - 1)) = toLowerCase(attribute)

\* lines 665-690, for a Set-Cookie header holding one cookie
checkInsecureCookies(R, context, freq, t) ==
  LET rule == R["insecure-cookies"]
      responseHeaders == orEmptyObject(context.callDetails.responseHeaders)
      cookie == or(getProperty(responseHeaders, <<"S", "e", "t", "-", "C", "o", "o", "k", "i", "e">>),
                   getProperty(responseHeaders, <<"s", "e", "t", "-", "c", "o", "o", "k", "i", "e">>))
      hasSecure == hasAttribute(cookie, <<"S", "e", "c", "u", "r", "e">>)
      hasHttpOnly == hasAttribute(cookie, <<"H", "t", "t", "p", "O", "n", "l", "y">>)
      hasSameSite == \E v \in {<<"S", "a", "m", "e", "S", "i", "t", "e", "=", "S", "t", "r", "i", "c", "t">>, <<"S", "a", "m", "e", "S", "i", "t", "e", "=", "L", "a", "x">>, <<"S", "a", "m", "e", "S", "i", "t", "e", "=", "N", "o", "n", "e">>} :
                        hasAttribute(cookie, v)
  IN IF truthy(cookie) /\ (~hasSecure \/ ~hasHttpOnly \/ ~hasSameSite)
     THEN Returned(<< [message |-> rule.message,
                       details |-> [missing |-> <<~hasSecure, ~hasHttpOnly, ~hasSameSite>>],
                       location |-> "response-headers"] >>, freq)
     ELSE Returned(<<>>, freq)

\* lines 695-711
checkPiiInResponseBody(R, context, freq, t) ==
  LET rule == R["pii-in-response-body"]
      body == context.callDetails.responseBody
      matching == IF body.t = "string" /\ truthy(body.s)
                  THEN SelectSeq(rule.patterns, LAMBDA p : testIgnoreCase(p.v, body.s))
                  ELSE <<>>
  IN Returned([i \in 1..Len(matching) |->
                 [message |-> <<"S", "e", "n", "s", "i", "t", "i", "v", "e", " ", "d", "a", "t", "a", " ", "d", "e", "t", "e", "c", "t", "e", "d", " ", "i", "n", " ", "r", "e", "s", "p", "o", "n", "s", "e", ":", " ">> \o matching[i].k,
                  details |-> [pattern |-> matching[i].k],
                  location |-> "response-body"]], freq)

\* lines 727-731
dangerousInput(val) ==
  /\ val.t = "string"
  /\ (Len(val.s) > 100 \/ \E i \in 1..Len(val.s) : val.s[i] \in {"<", ">", "'", "\"", "\\"})

\* lines 716-749
checkMissingInputValidation(R, context, freq, t) ==
  LET rule == R["missing-input-validation"]
      valuesToCheck == objectValues(context.queryParams) \o getDeepValues(context.requestBody)
      hasDangerousInput == \E i \in 1..Len(valuesToCheck) : dangerousInput(valuesToCheck[i])
      responseHeaders == orEmptyObject(context.callDetails.responseHeaders)
      hasValidationHeaders == or(getProperty(responseHeaders, <<"X", "-", "C", "o", "n", "t", "e", "n", "t", "-", "T", "y", "p", "e", "-", "O", "p", "t", "i", "o", "n", "s">>),
                                 getProperty(responseHeaders, <<"x", "-", "c", "o", "n", "t", "e", "n", "t", "-", "t", "y", "p", "e", "-", "o", "p", "t", "i", "o", "n", "s">>))
  IN IF hasDangerousInput /\ ~truthy(hasValidationHeaders) /\ context.method # Str.GET
     THEN Returned(<< [message |-> rule.message,
                       details |-> [recommendation |-> "validate"],
                       location |-> "general"] >>, freq)
     ELSE Returned(<<>>, freq)

\* Object.values(headers).join(' ')
RECURSIVE joinValues(_, _)
joinValues(e, i) ==
  IF i > Len(e) THEN <<>>
  ELSE (IF i > 1 THEN <<" ">> ELSE <<>>) \o e[i].v.s \o joinValues(e, i + 1)

\* lines 754-779; the patterns here have flag g only, so letter case counts
checkHardcodedSecrets(R, context, freq, t) ==
  LET rule == R["hardcoded-secrets"]
      textToCheck == href(context.url) \o <<" ">> \o stringify(context.requestBody) \o <<" ">>
                     \o joinValues(context.headers.e, 1)
      matching == SelectSeq(rule.patterns, LAMBDA p : testLiteral(p.v, textToCheck))
  IN Returned([i \in 1..Len(matching) |->
                 [message |-> <<"P", "o", "t", "e", "n", "t", "i", "a", "l", " ", "h", "a", "r", "d", "c", "o", "d", "e", "d", " ", "s", "e", "c", "r", "e", "t", " ", "d", "e", "t", "e", "c", "t", "e", "d", ":", " ">> \o matching[i].k,
                  details |-> [type |-> matching[i].k],
                  location |-> "request"]], freq)

\* value looks like a URL, line 800
looksLikeRedirect(value) ==
  startsWith(value, <<"h", "t", "t", "p", ":", "/", "/">>) \/ startsWith(value, <<"h", "t", "t", "p", "s", ":", "/", "/">>) \/ startsWith(value, <<"/", "/">>)

\* lines 784-811
checkOpenRedirect(R, context, freq, t) ==
  LET rule == R["open-redirect"]
      keys == objectKeys(context.queryParams)
      foundParams == SelectSeq(rule.params, LAMBDA param :
                       \E i \in 1..Len(keys) : toLowerCase(keys[i]) = toLowerCase(param))
      value(param) == or(getProperty(context.queryParams, param),
                         getProperty(context.queryParams, toLowerCase(param)))
      redirecting == SelectSeq(foundParams, LAMBDA param :
                       truthy(value(param)) /\ looksLikeRedirect(value(param)))
  IN Returned([i \in 1..Len(redirecting) |->
                 [message |-> <<"P", "o", "t", "e", "n", "t", "i", "a", "l", " ", "o", "p", "e", "n", " ", "r", "e", "d", "i", "r", "e", "c", "t", " ", "v", "i", "a", " ", "p", "a", "r", "a", "m", "e", "t", "e", "r", ":", " ">> \o redirecting[i],
                  details |-> [param |-> redirecting[i]],
                  location |-> "query"]], freq)

\* allParams[k] = v
setProperty(e, k, v) ==
  IF \E i \in 1..Len(e) : e[i].k = k
  THEN [i \in 1..Len(e) |-> IF e[i].k = k THEN [k |-> k, v |-> v] ELSE e[i]]
  ELSE Append(e, [k |-> k, v |-> v])

RECURSIVE setProperties(_, _, _)
setProperties(e, items, i) ==
  IF i > Len(items) THEN e
  ELSE setProperties(setProperty(e, items[i].path, items[i].value), items, i + 1)

\* /^[a-z0-9.-]+\.[a-z]{2,}/
looksLikeHost(s) ==
  \E k \in 1..(Len(s) - 3) :
     /\ \A j \in 1..k : s[j] \in {LowerCase[i] : i \in 1..26} \cup Digits \cup {".", "-"}
     /\ s[k + 1] = "."
     /\ s[k + 2] \in {LowerCase[i] : i \in 1..26}
     /\ s[k + 3] \in {LowerCase[i] : i \in 1..26}

\* lines 837-842
looksLikeEndpoint(value) ==
  /\ value.t = "string" /\ truthy(value.s)
  /\ \/ startsWith(value.s, <<"h", "t", "t", "p", ":", "/", "/">>) \/ startsWith(value.s, <<"h", "t", "t", "p", "s", ":", "/", "/">>)
     \/ includes(value.s, <<":", "/", "/">>) \/ looksLikeHost(value.s)

\* lines 816-855
checkSsrfRisk(R, context, freq, t) ==
  LET rule == R["ssrf-risk"]
      allParams == setProperties(context.queryParams.e,
                     findFieldsInObject(context.requestBody, rule.params, TRUE), 1)
      contains(i, param) == includes(toLowerCase(allParams[i].k), toLowerCase(param))
      foundParams == SelectSeq(rule.params, LAMBDA param :
                       \E i \in 1..Len(allParams) : contains(i, param))
      matchingKey(param) == CHOOSE i \in 1..Len(allParams) :
                              contains(i, param) /\ \A j \in 1..(i - 1) : ~contains(j, param)
      risky == SelectSeq(foundParams, LAMBDA param :
                 looksLikeEndpoint(allParams[matchingKey(param)].v))
  IN Returned([i \in 1..Len(risky) |->
                 [message |-> <<"P", "o", "t", "e", "n", "t", "i", "a", "l", " ", "S", "S", "R", "F", " ", "r", "i", "s", "k", " ", "v", "i", "a", " ", "p", "a", "r", "a", "m", "e", "t", "e", "r", ":", " ">>
                              \o allParams[matchingKey(risky[i])].k,
                  details |-> [param |-> allParams[matchingKey(risky[i])].k],
                  location |-> "parameters"]], freq)

\* lines 860-881
checkDebugEndpoints(R, context, freq, t) ==
  LET rule == R["debug-endpoints"]
      urlPath == toLowerCase(context.url.pathname)
      matched == SelectSeq(rule.patterns, LAMBDA p : includes(urlPath, toLowerCase(p)))
  IN IF Len(matched) > 0
     THEN Returned(<< [message |-> <<"P", "o", "t", "e", "n", "t", "i", "a", "l", "l", "y", " ", "s", "e", "n", "s", "i", "t", "i", "v", "e", " ", "e", "n", "d", "p", "o", "i", "n", "t", " ", "a", "c", "c", "e", "s", "s", "e", "d", ":", " ">> \o matched[1],
                       details |-> [pattern |-> matched[1]],
                       location |-> "path"] >>, freq)
     ELSE Returned(<<>>, freq)

----------------------------------------------------------------------------
(* Orchestrator *)

\* lines 89-116: the rule ids for which getRuleChecker returns a function
CheckerIds == AllRuleIds \ {"custom-rule"}

getRuleChecker(ruleId, R, context, freq, t) ==
  CASE ruleId = "sensitive-data-in-url" -> checkSensitiveDataInUrl(R, context, freq, t)
    [] ruleId = "sensitive-headers" -> checkSensitiveHeaders(R, context, freq, t)
    [] ruleId = "weak-authentication" -> checkWeakAuthentication(R, context, freq, t)
    [] ruleId = "insecure-http" -> checkInsecureHttp(R, context, freq, t)
    [] ruleId = "missing-response-security-headers" ->
         checkMissingResponseSecurityHeaders(R, context, freq, t)
    [] ruleId = "cors-misconfiguration" -> checkCorsMisconfiguration(R, context, freq, t)
    [] ruleId = "pii-in-request-body" -> checkPiiInRequestBody(R, context, freq, t)
    [] ruleId = "pii-in-response-body" -> checkPiiInResponseBody(R, context, freq, t)
    [] ruleId = "excessive-data-exposure" -> checkExcessiveDataExposure(R, context, freq, t)
    [] ruleId = "sql-injection-risk" -> checkSqlInjectionRisk(R, context, freq, t)
    [] ruleId = "xss-risk" -> checkXssRisk(R, context, freq, t)
    [] ruleId = "path-traversal-risk" -> checkPathTraversalRisk(R, context, freq, t)
    [] ruleId = "insufficient-rate-limiting" -> checkRateLimiting(R, context, freq, t)
    [] ruleId = "weak-password-policy" -> checkWeakPasswordPolicy(R, context, freq, t)
    [] ruleId = "verbose-error-messages" -> checkVerboseErrors(R, context, freq, t)
    [] ruleId = "predictable-resource-ids" -> checkPredictableIds(R, context, freq, t)
    [] ruleId = "missing-authentication" -> checkMissingAuthentication(R, context, freq, t)
    [] ruleId = "mass-assignment" -> checkMassAssignment(R, context, freq, t)
    [] ruleId = "unencrypted-sensitive-data" -> checkUnencryptedSensitiveData(R, context, freq, t)
    [] ruleId = "insecure-cookies" -> checkInsecureCookies(R, context, freq, t)
    [] ruleId = "missing-input-validation" -> checkMissingInputValidation(R, context, freq, t)
    [] ruleId = "hardcoded-secrets" -> checkHardcodedSecrets(R, context, freq, t)
    [] ruleId = "open-redirect" -> checkOpenRedirect(R, context, freq, t)
    [] ruleId = "ssrf-risk" -> checkSsrfRisk(R, context, freq, t)
    [] ruleId = "debug-endpoints" -> checkDebugEndpoints(R, context, freq, t)
    [] ruleId = "untrusted-client-identity" -> checkUntrustedClientIdentity(R, context, freq, t)

\* lines 40-44: the context handed to every checker
Context(callDetails) ==
  [ url |-> callDetails.url,
    method |-> or(callDetails.method, Str.GET),
    headers |-> orEmptyObject(callDetails.allHeaders),
    queryParams |-> orEmptyObject(callDetails.queryParams),
    requestBody |-> orEmptyObject(callDetails.requestBody),
    callDetails |-> callDetails ]

\* the defaults of lines 40-44 written back into the caller's object
contextAfter_mut(callDetails) ==
  [ callDetails EXCEPT !.method = or(@, Str.GET),
                       !.allHeaders = orEmptyObject(@),
                       !.queryParams = orEmptyObject(@),
                       !.requestBody = orEmptyObject(@) ]

\* the caller's callDetails object once analyzeCall has returned: lines 40-44
\* bind the defaults to local constants, the checkers build their lists and
\* maps afresh (lines 824, 970, 1065), and the only writes to an object that
\* outlives the call are those to callFrequency (lines 459-467)
contextAfter(callDetails) == callDetails

\* mutant: the location of the issue is dropped, every finding is 'general'
Finding_mut(ruleId, rule, issue, t) ==
  [ ruleId |-> ruleId, severity |-> rule.severity, name |-> rule.name,
    message |-> IF issue.message # <<>> THEN issue.message ELSE rule.message,
    details |-> issue.details, location |-> "general", timestamp |-> t ]

\* lines 64-73: one finding per issue returned by the checker
Finding(ruleId, rule, issue, t) ==
  [ ruleId |-> ruleId, severity |-> rule.severity, name |-> rule.name,
    message |-> IF issue.message # <<>> THEN issue.message ELSE rule.message,
    details |-> issue.details,
    location |-> IF issue.location # "" THEN issue.location ELSE "general",
    timestamp |-> t ]

\* mutant: the enabled flag is not consulted
ruleEnabled_mut(rule) == TRUE

ruleEnabled(rule) == rule.enabled

\* lines 50 and 77-79: the try/catch sits inside the loop body, so after a
\* checker throws at rule i the loop goes on with rule i + 1
\* mutant: the try/catch wraps the whole loop, a throw ends the analysis
afterCatch_mut(i) == Len(AllRuleOrder) + 1

afterCatch(i) == i + 1

\* the rules an analysis runs: none before init() has loaded a rule set
\* (lines 34-37), else the enabled ones (line 48)
activeRules(R, isInitialized) ==
  IF ~isInitialized \/ isNoRules(R) THEN {} ELSE {r \in DOMAIN R : R[r].enabled}

\* Object.entries(this.rules): the ids of the configuration, in its order
ruleOrder(R) == SelectSeq(AllRuleOrder, LAMBDA id : id \in DOMAIN R)

\* mutant: the function returned by getRuleChecker is called without the
\* test of line 52, so that calling undefined throws inside the try block
noChecker_mut(freq) == Thrown(freq)

\* line 52, `if (ruleChecks)`: for an id without checker nothing is done
noChecker(freq) == Returned(<<>>, freq)

\* lines 47-80: the loop over Object.entries(this.rules), from rule i on
RECURSIVE analyzeRules(_, _, _, _, _, _)
analyzeRules(i, R, callDetails, freq, t, acc) ==
  IF i > Len(ruleOrder(R)) THEN [acc EXCEPT !.freq = freq]
  ELSE
    LET ruleId == ruleOrder(R)[i]
        rule == R[ruleId]
    IN IF ~ruleEnabled(rule)
       THEN analyzeRules(i + 1, R, callDetails, freq, t, acc)
       ELSE
         LET res == IF ruleId \in CheckerIds
                    THEN getRuleChecker(ruleId, R, Context(callDetails), freq, t)
                    ELSE noChecker(freq)
             found == [k \in 1..Len(res.issues) |-> Finding(ruleId, rule, res.issues[k], t)]
         IN analyzeRules(IF res.threw THEN afterCatch(i) ELSE i + 1,
              R, callDetails, res.freq, t,
              [ vulnerabilities |-> acc.vulnerabilities \o found,
                invoked |-> acc.invoked \cup (IF ruleId \in CheckerIds THEN {ruleId} ELSE {}),
                threw |-> acc.threw \cup (IF res.threw THEN {ruleId} ELSE {}),
                freq |-> res.freq ])

analyzeCall(R, isInitialized, callDetails, freq, t) ==
  IF ~isInitialized \/ isNoRules(R)
  THEN [vulnerabilities |-> <<>>, invoked |-> {}, threw |-> {}, freq |-> freq]
  ELSE analyzeRules(1, R, callDetails, freq, t,
         [vulnerabilities |-> <<>>, invoked |-> {}, threw |-> {}, freq |-> freq])

\* getVulnerabilitySummary(vulnerabilities), lines 1077-1101
getVulnerabilitySummary(vulnerabilities) ==
  LET count(sev) == Len(SelectSeq(vulnerabilities, LAMBDA v : v.severity = sev))
      ids == {vulnerabilities[i].ruleId : i \in 1..Len(vulnerabilities)}
      first(r) == CHOOSE i \in 1..Len(vulnerabilities) :
                    /\ vulnerabilities[i].ruleId = r
                    /\ \A j \in 1..(i - 1) : vulnerabilities[j].ruleId # r
  IN [ total |-> Len(vulnerabilities),
       critical |-> count("critical"), high |-> count("high"),
       medium |-> count("medium"), low |-> count("low"),
       byRule |-> [r \in ids |->
                    [ count |-> Len(SelectSeq(vulnerabilities, LAMBDA v : v.ruleId = r)),
                      name |-> vulnerabilities[first(r)].name,
                      severity |-> vulnerabilities[first(r)].severity ]] ]

----------------------------------------------------------------------------
(* Inputs *)

NoHeaders == EmptyObject

\* the documents security-rules.json can hold
EnabledSets == {RuleIds} \cup {RuleIds \ {r} : r \in RuleIds}

BundledDocs ==
  {ConfigDoc(en, TRUE, TRUE) : en \in EnabledSets}
    \cup {ConfigDoc(RuleIds, TRUE, FALSE), NoRulesDoc}

\* call records handed to analyzeCall by the background script
RequestPhase(method, protocol, pathname, allHeaders, queryParams, requestBody) ==
  CallRecord(method, protocol, pathname, allHeaders, queryParams, requestBody,
             0, Undefined, Undefined)

EngineCalls ==
  { \* plain GET over http, no pagination, request phase
    RequestPhase(Str.GET, "http:", <<"/", "a">>, NoHeaders, EmptyObject, Undefined),
    \* authenticated POST carrying an identity field; the response allows any
    \* origin with credentials and announces a rate limit
    CallRecord(Str.POST, "https:", <<"/", "b">>,
               JObject(<<Header(Str.Authorization, Str.eyJ)>>), EmptyObject,
               JObject(<<Header(Str.email, <<"x">>)>>), 200,
               JObject(<<Header(Str.ACAO, Str.star), Header(Str.acac, Str.true),
                         Header(Str.XRateLimitLimit, <<"9">>)>>), Undefined),
    \* GET with a page parameter whose request carries a rate-limit header
    RequestPhase(Str.GET, "https:", <<"/", "a">>,
                 JObject(<<Header(Str.xratelimitlimit, <<"9">>)>>),
                 JObject(<<Header(Str.page, <<"1">>)>>), Undefined) }

----------------------------------------------------------------------------
(* State after construction (constructor, lines 7-11) *)

Severities == {"critical", "high", "medium", "low"}

\* background script and panel right after they are loaded
hostInit ==
  /\ apiCalls = <<>>
  /\ pendingRequests = <<>>
  /\ requests = <<>>
  /\ recording = TRUE
  /\ totalCallsCount = 0
  /\ endpointOrder = <<>>
  /\ tab = [panelOpen |-> TRUE, endpoints |-> 0]
  /\ toPanel = <<>>
  /\ apiData = <<>>
  /\ summary = [counts |-> [sev \in Severities |-> 0], data |-> <<>>]
  /\ storage = NoRulesDoc
  /\ securityRulesConfig = NoRulesDoc
  /\ panelRules = NoRules
  /\ panelInitialized = FALSE
  /\ panelPendingInits = 0
  /\ saveState = "none"
  /\ dataVersion = 0
  /\ currentDataVersion = 0
  /\ toBackground = <<>>
  /\ cleared = [clicks |-> 0, processed |-> 0, upTo |-> 0]

NoLast ==
  [ valid |-> FALSE, call |-> Undefined, after |-> Undefined, rules |-> NoRules,
    initialized |-> FALSE,
    freq |-> <<>>, time |-> 0, vulnerabilities |-> <<>>, invoked |-> {}, threw |-> {},
    lastInit |-> "none", persisted |-> NoRulesDoc,
    summary |-> getVulnerabilitySummary(<<>>),
    idle |-> [seen |-> FALSE, summary |-> getVulnerabilitySummary(<<>>)] ]

Init ==
  /\ bundled \in BundledDocs
  /\ rules = NoRules
  /\ initialized = FALSE
  /\ pendingInits = 0
  /\ callFrequency = <<>>
  /\ now = 0
  /\ last = NoLast
  /\ history = <<>>
  /\ lastInit = [count |-> 0, outcome |-> "none"]
  /\ hostInit

----------------------------------------------------------------------------
(* init(), lines 16-27.  The call suspends at `await fetch` / `await        *)
(* response.json()`; lines 20-22 or the catch block run when it resumes.    *)

initCall ==
  /\ lastInit.count + pendingInits < MaxInits
  /\ pendingInits' = pendingInits + 1
  /\ UNCHANGED <<clearVars, bundled, rules, initialized, callFrequency, now, last, history, lastInit, bgVars, panelVars>>

\* fetch and json() succeed and the document has a rules object
initLoaded ==
  /\ pendingInits > 0
  /\ bundled.hasRules
  /\ pendingInits' = pendingInits - 1
  /\ rules' = bundled.rules
  /\ initialized' = TRUE
  /\ lastInit' = [count |-> lastInit.count + 1, outcome |-> "loaded"]
  /\ UNCHANGED <<clearVars, bundled, callFrequency, now, last, history, bgVars, panelVars>>

\* mutant: the catch block only logs and leaves this.initialized as it was
initLoadFails_mut ==
  /\ pendingInits > 0
  /\ pendingInits' = pendingInits - 1
  /\ lastInit' = [count |-> lastInit.count + 1, outcome |-> "failed"]
  /\ UNCHANGED <<clearVars, bundled, rules, initialized, callFrequency, now, last, history, bgVars, panelVars>>

\* fetch or json() rejects: the catch block runs, this.rules is not assigned
initLoadFails ==
  /\ pendingInits > 0
  /\ pendingInits' = pendingInits - 1
  /\ initialized' = FALSE
  /\ lastInit' = [count |-> lastInit.count + 1, outcome |-> "failed"]
  /\ UNCHANGED <<clearVars, bundled, rules, callFrequency, now, last, history, bgVars, panelVars>>

\* the document parses but has no rules object: lines 20-21 run, then
\* Object.keys(undefined) throws on line 22 and the catch block runs
initNoRules ==
  /\ pendingInits > 0
  /\ ~bundled.hasRules
  /\ pendingInits' = pendingInits - 1
  /\ rules' = NoRules
  /\ initialized' = FALSE
  /\ lastInit' = [count |-> lastInit.count + 1, outcome |-> "failed"]
  /\ UNCHANGED <<clearVars, bundled, callFrequency, now, last, history, bgVars, panelVars>>

----------------------------------------------------------------------------
(* analyzeCall(callDetails), lines 34-83 *)

\* a header map carries a rate-limit-indicating header, under any spelling
announcesRateLimit(headers) ==
  \E i \in 1..Len(headers.e) :
     /\ toLowerCase(headers.e[i].k) \in {Str.xratelimitlimit, toLowerCase(Str.RateLimitLimit)}
     /\ headers.e[i].v.t = "string" /\ headers.e[i].v.s # <<>>

rateLimitFindings(vulns) ==
  Len(SelectSeq(vulns, LAMBDA v : v.ruleId = "insufficient-rate-limiting"))

\* securityAnalyzer.analyzeCall(call) as the host runs it: the rate table is
\* updated, and the analysis is recorded with the summary of its findings and
\* the summary of the latest analysis made while no rule was active
analysed(callDetails, res) ==
  LET ctx == Context(callDetails)
  IN /\ callFrequency' = res.freq
     /\ last' = [ valid |-> TRUE, call |-> callDetails,
                  after |-> contextAfter(callDetails), rules |-> rules,
                  initialized |-> initialized, freq |-> callFrequency, time |-> now,
                  vulnerabilities |-> res.vulnerabilities, invoked |-> res.invoked,
                  threw |-> res.threw, lastInit |-> lastInit.outcome,
                  persisted |-> IF saveState = "saved" THEN storage ELSE NoRulesDoc,
                  summary |-> getVulnerabilitySummary(res.vulnerabilities),
                  idle |-> IF activeRules(rules, initialized) = {}
                           THEN [seen |-> TRUE,
                                 summary |-> getVulnerabilitySummary(res.vulnerabilities)]
                           ELSE last.idle ]
     /\ history' = Append(history,
                     [ endpoint |-> <<ctx.method, ctx.url.pathname>>, time |-> now,
                       active |-> "insufficient-rate-limiting" \in res.invoked,
                       requestLimit |-> announcesRateLimit(orEmptyObject(callDetails.allHeaders)),
                       responseLimit |-> announcesRateLimit(orEmptyObject(callDetails.responseHeaders)),
                       findings |-> rateLimitFindings(res.vulnerabilities) ])

analyzeCallOn(callDetails) ==
  /\ Len(history) < MaxAnalyses
  /\ analysed(callDetails, analyzeCall(rules, initialized, callDetails, callFrequency, now))
  /\ UNCHANGED <<clearVars, bundled, rules, initialized, pendingInits, now, lastInit, bgVars, panelVars>>

analyzeEngineCall == \E c \in EngineCalls : analyzeCallOn(c)

tick ==
  /\ now < MaxTime
  /\ now' = now + 1
  /\ UNCHANGED <<clearVars, bundled, rules, initialized, pendingInits, callFrequency, last, history, lastInit, bgVars, panelVars>>

Next == initCall \/ initLoaded \/ initLoadFails \/ initNoRules \/ analyzeEngineCall

Spec == Init /\ [][Next]_vars

----------------------------------------------------------------------------
(* Rate limiting: the analyzer with a loaded rule set, the clock advancing *)

RateDocs == {ConfigDoc(RuleIds, TRUE, TRUE)}

RateCalls ==
  { \* no rate-limit header anywhere
    RequestPhase(Str.GET, "https:", <<"/", "a">>, NoHeaders,
                 JObject(<<Header(Str.limit, <<"5">>)>>), Undefined),
    \* same path, other method: another endpoint
    RequestPhase(Str.POST, "https:", <<"/", "a">>, NoHeaders, EmptyObject, Undefined),
    \* the response announces a rate limit
    CallRecord(Str.GET, "https:", <<"/", "a">>, NoHeaders,
               JObject(<<Header(Str.limit, <<"5">>)>>), Undefined, 200,
               JObject(<<Header(Str.XRateLimitLimit, <<"9">>)>>), Undefined),
    \* the request itself carries a rate-limit header
    RequestPhase(Str.GET, "https:", <<"/", "a">>,
                 JObject(<<Header(Str.RateLimitLimit, <<"9">>)>>),
                 JObject(<<Header(Str.limit, <<"5">>)>>), Undefined) }

InitRate ==
  /\ bundled \in RateDocs
  /\ rules = NoRules
  /\ initialized = FALSE
  /\ pendingInits = 0
  /\ callFrequency = <<>>
  /\ now = 0
  /\ last = NoLast
  /\ history = <<>>
  /\ lastInit = [count |-> 0, outcome |-> "none"]
  /\ hostInit

\* the host awaits init() once at startup
initAtStartup == lastInit.count = 0 /\ pendingInits = 0 /\ initCall

analyzeRateCall == initialized /\ \E c \in RateCalls : analyzeCallOn(c)

NextRate == initAtStartup \/ initLoaded \/ analyzeRateCall \/ tick

SpecRate == InitRate /\ [][NextRate]_vars

----------------------------------------------------------------------------
(* Background script (src/unnamed/part_009): the webRequest listeners and   *)
(* the GET_API_CALLS handler.  A request goes through onBeforeRequest,      *)
(* onBeforeSendHeaders and onCompleted, in this order.                      *)

MaxRequests == 2      \* requests the browser issues per behaviour

\* what the browser reports about one request over its three events
Request(method, protocol, pathname, query, body, requestHeaders, statusCode, responseHeaders) ==
  [ method |-> method, protocol |-> protocol, pathname |-> pathname, query |-> query,
    body |-> body, requestHeaders |-> requestHeaders, statusCode |-> statusCode,
    responseHeaders |-> responseHeaders ]

BrowserRequests ==
  { \* authenticated POST over http with an identity field in the body; the
    \* response allows any origin with credentials
    Request(Str.POST, "http:", <<"/", "b">>, EmptyObject,
            JObject(<<Header(Str.email, <<"x">>)>>),
            JObject(<<Header(Str.Authorization, Str.eyJ)>>), 200,
            JObject(<<Header(Str.ACAO, Str.star), Header(Str.ACAC, Str.true)>>)),
    \* GET over http without pagination
    Request(Str.GET, "http:", <<"/", "a">>, EmptyObject, Undefined,
            JObject(<<Header(Str.Accept, Str.star)>>), 200, EmptyObject) }

\* `${details.method} ${url.pathname}`
endpointOf(req) == <<req.method, req.pathname>>

\* Map.set(k, v)
mapSet(map, k, v) == [x \in (DOMAIN map) \cup {k} |-> IF x = k THEN v ELSE map[x]]

\* Map.delete(k)
mapDelete(map, k) == [x \in (DOMAIN map) \ {k} |-> map[x]]

\* apiCall.calls.find(c => c.requestId === details.requestId): its index, 0 if none
findCall(calls, id) ==
  IF \E i \in 1..Len(calls) : calls[i].requestId = id
  THEN CHOOSE i \in 1..Len(calls) :
         calls[i].requestId = id /\ \A j \in 1..(i - 1) : calls[j].requestId # id
  ELSE 0

\* lines 209-226: the endpoint data of API_CALL_DETECTED has no securityIssues,
\* and the message no version (version is <<>>; a message with one has <<n>>)
detectedData(apiCall) ==
  [calls |-> apiCall.calls, securityIssues |-> <<>>, hasSecurityIssues |-> FALSE]

\* lines 79-90: securityIssues: value.securityIssues || []
callsData(apiCall) ==
  [calls |-> apiCall.calls, securityIssues |-> apiCall.securityIssues,
   hasSecurityIssues |-> TRUE]

\* CONFIG, part_007 lines 189-192
MAX_CALLS_PER_ENDPOINT == 100
MAX_TOTAL_ENDPOINTS == 500

\* part_009 line 205: the limits are enforced when totalCallsCount % 50 === 0
EnforceEvery == 50

\* calls.slice(-n)
sliceLast(calls, n) ==
  IF Len(calls) > n THEN SubSeq(calls, Len(calls) - n + 1, Len(calls)) ELSE calls

\* enforceMemoryLimits with the newest endpoints removed instead of the oldest
enforceMemoryLimits_mut(map, order) ==
  LET kept == IF Len(order) > MAX_TOTAL_ENDPOINTS
              THEN SubSeq(order, 1, MAX_TOTAL_ENDPOINTS) ELSE order
  IN [ order |-> kept,
       map |-> [ e \in {kept[i] : i \in 1..Len(kept)} |->
                   [map[e] EXCEPT !.calls = sliceLast(@, MAX_CALLS_PER_ENDPOINT)] ] ]

\* part_009 lines 41-57.  The Map is the pair of its values (map) and its
\* keys in insertion order (order), the order Array.from(apiCalls.entries())
\* lists them in.
enforceMemoryLimits(map, order) ==
  LET entriesToRemove == IF Len(order) > MAX_TOTAL_ENDPOINTS
                         THEN Len(order) - MAX_TOTAL_ENDPOINTS ELSE 0
      kept == SubSeq(order, entriesToRemove + 1, Len(order))
  IN [ order |-> kept,
       map |-> [ e \in {kept[i] : i \in 1..Len(kept)} |->
                   [map[e] EXCEPT !.calls = sliceLast(@, MAX_CALLS_PER_ENDPOINT)] ] ]

\* lines 138-228, for the request the browser reports; the request id is the
\* number of the request.  The endpoint data of the message is read from the
\* endpoint object after the limits were enforced, whether or not the object
\* is still in the Map; with no panel open sendMessage rejects and the catch
\* of line 223 drops the message.
beforeRequest(req) ==
    LET id == Len(requests) + 1
        endpoint == endpointOf(req)
        apiCall == IF endpoint \in DOMAIN apiCalls THEN apiCalls[endpoint]
                   ELSE [calls |-> <<>>, securityIssues |-> <<>>]
        callDetails == [ CallRecord(req.method, req.protocol, req.pathname, Undefined,
                                    req.query, req.body, 0, Undefined, Undefined)
                         EXCEPT !.requestId = id ]
        apiCall2 == [apiCall EXCEPT !.calls = Append(@, callDetails)]
        pushed == [ map |-> mapSet(apiCalls, endpoint, apiCall2),
                    order |-> IF endpoint \in DOMAIN apiCalls THEN endpointOrder
                              ELSE Append(endpointOrder, endpoint) ]
    IN /\ requests' = Append(requests, [ req |-> req, stage |-> "requested",
                                         captured |-> FALSE, bodyAt |-> "none" ])
       /\ IF recording
          THEN \E limited \in { IF (totalCallsCount + 1) % EnforceEvery = 0
                                 THEN enforceMemoryLimits(pushed.map, pushed.order)
                                 ELSE pushed } :
                 /\ pendingRequests' = mapSet(pendingRequests, id, endpoint)
                 /\ apiCalls' = limited.map
                 /\ endpointOrder' = limited.order
                 /\ totalCallsCount' = totalCallsCount + 1
                 /\ toPanel' =
                      IF tab.panelOpen
                      THEN Append(toPanel,
                             [ type |-> "API_CALL_DETECTED", endpoint |-> endpoint,
                               data |-> mapSet(<<>>, endpoint,
                                          detectedData(IF endpoint \in DOMAIN limited.map
                                                       THEN limited.map[endpoint] ELSE apiCall2)),
                               version |-> <<>> ])
                      ELSE toPanel
          ELSE UNCHANGED <<pendingRequests, apiCalls, endpointOrder, totalCallsCount, toPanel>>
       /\ UNCHANGED <<clearVars, bundled, rules, initialized, pendingInits, callFrequency, now, last,
                      history, lastInit, recording, tab, apiData, summary, storage,
                      securityRulesConfig, panelRules, panelInitialized, panelPendingInits,
                      saveState>>

\* the browser issues one of the requests
onBeforeRequest ==
  \E req \in BrowserRequests : Len(requests) < MaxRequests /\ beforeRequest(req)

\* lines 272-275 and 314-315: the endpoint data with the call record replaced
\* by the analysed one and the findings pushed onto the endpoint's list
attachIssues_mut(apiCall, i, call, vulnerabilities) ==
  [ calls |-> [apiCall.calls EXCEPT ![i] = call], securityIssues |-> vulnerabilities ]

attachIssues(apiCall, i, call, vulnerabilities) ==
  [ calls |-> [apiCall.calls EXCEPT ![i] = call],
    securityIssues |-> apiCall.securityIssues \o vulnerabilities ]

\* lines 231-284.  The header array becomes an object keyed by header name,
\* a later header of the same name replacing an earlier one, which is how
\* getProperty reads the entries; sanitizeHeader returns the value as it is.
onBeforeSendHeaders ==
  \E id \in DOMAIN requests :
    LET req == requests[id].req
        endpoint == endpointOf(req)
        i == IF endpoint \in DOMAIN apiCalls THEN findCall(apiCalls[endpoint].calls, id) ELSE 0
    IN /\ requests[id].stage = "requested"
       /\ requests' = [requests EXCEPT ![id].stage = "sent"]
       /\ IF recording /\ id \in DOMAIN pendingRequests /\ i # 0
          THEN LET apiCall == apiCalls[endpoint]
                   call == [apiCall.calls[i] EXCEPT !.allHeaders = req.requestHeaders]
               IN \E res \in {analyzeCall(rules, initialized, call, callFrequency, now)} :
                    LET vulnerabilities == res.vulnerabilities
                        call2 == IF Len(vulnerabilities) > 0
                                 THEN [call EXCEPT !.securityIssues = vulnerabilities]
                                 ELSE call
                    IN /\ apiCalls' = [apiCalls EXCEPT ![endpoint] =
                                         attachIssues(apiCall, i, call2, vulnerabilities)]
                       /\ analysed(call, res)
          ELSE UNCHANGED <<apiCalls, callFrequency, last, history>>
       /\ UNCHANGED <<clearVars, bundled, rules, initialized, pendingInits, now, lastInit,
                      pendingRequests, recording, totalCallsCount, endpointOrder, tab,
                      panelVars>>

\* lines 287-326; with recording off the listener returns at line 289, before
\* the pending entry is deleted
onCompleted ==
  \E id \in DOMAIN requests :
    LET req == requests[id].req
        endpoint == endpointOf(req)
        i == IF endpoint \in DOMAIN apiCalls THEN findCall(apiCalls[endpoint].calls, id) ELSE 0
    IN /\ requests[id].stage = "sent"
       /\ requests' = [requests EXCEPT ![id].stage = "completed"]
       /\ IF recording /\ i # 0
          THEN LET apiCall == apiCalls[endpoint]
                   call == [apiCall.calls[i] EXCEPT !.status = req.statusCode,
                                                    !.responseHeaders = req.responseHeaders]
               IN \E res \in {analyzeCall(rules, initialized, call, callFrequency, now)} :
                    LET vulnerabilities == res.vulnerabilities
                        call2 == [call EXCEPT !.securityIssues = @ \o vulnerabilities]
                    IN /\ apiCalls' = [apiCalls EXCEPT ![endpoint] =
                                         attachIssues(apiCall, i, call2, vulnerabilities)]
                       /\ analysed(call, res)
          ELSE UNCHANGED <<apiCalls, callFrequency, last, history>>
       /\ pendingRequests' = IF recording THEN mapDelete(pendingRequests, id)
                                           ELSE pendingRequests
       /\ UNCHANGED <<clearVars, bundled, rules, initialized, pendingInits, now, lastInit,
                      recording, totalCallsCount, endpointOrder, tab, panelVars>>

\* call.url === responseData.url; sanitizeUrl returns the URL as it is
\* (part_007 lines 273-276)
sameUrl(call, req) ==
  /\ call.url = [protocol |-> req.protocol, pathname |-> req.pathname]
  /\ call.queryParams = req.query

\* part_009 lines 23-28: over the endpoints in insertion order from the k-th
\* on, the first call with the URL of the response: <<endpoint, index>>, or
\* <<>> if there is none.  The clock of a behaviour with response capture
\* does not advance, so the call and the response are less than 5000 ms apart.
RECURSIVE matchingCall(_, _)
matchingCall(req, k) ==
  IF k > Len(endpointOrder) THEN <<>>
  ELSE LET calls == apiCalls[endpointOrder[k]].calls
           hits == {i \in 1..Len(calls) : sameUrl(calls[i], req)}
       IN IF hits # {}
          THEN <<endpointOrder[k], CHOOSE i \in hits : \A j \in hits : i <= j>>
          ELSE matchingCall(req, k + 1)

\* response bodies the debugger reports
ResponseBodies == { <<"e", "x", "c", "e", "p", "t", "i", "o", "n", " ", "s", "s", "n", ":", "1">>, <<"o", "k">> }

\* mutant: the call the body is attached to is analysed again
onResponseReceived_mut ==
  \E id \in DOMAIN requests, body \in ResponseBodies :
    LET match == matchingCall(requests[id].req, 1)
    IN /\ requests[id].stage \in {"sent", "completed"}
       /\ ~requests[id].captured
       /\ IF match = <<>>
          THEN /\ apiCalls' = apiCalls
               /\ requests' = [requests EXCEPT ![id].captured = TRUE]
               /\ UNCHANGED <<callFrequency, last, history>>
          ELSE LET apiCall == apiCalls[match[1]]
                   call == [apiCall.calls[match[2]] EXCEPT !.responseBody = JString(body)]
               IN \E res \in {analyzeCall(rules, initialized, call, callFrequency, now)} :
                    /\ apiCalls' = [apiCalls EXCEPT ![match[1]] =
                                      attachIssues(apiCall, match[2],
                                        [call EXCEPT !.securityIssues = @ \o res.vulnerabilities],
                                        res.vulnerabilities)]
                    /\ requests' =
                         [ [requests EXCEPT ![id].captured = TRUE] EXCEPT
                             ![call.requestId].bodyAt =
                                IF @ # "none" THEN @
                                ELSE IF requests[call.requestId].stage = "completed"
                                     THEN "after" ELSE "before" ]
                    /\ analysed(call, res)
       /\ UNCHANGED <<clearVars, bundled, rules, initialized, pendingInits, now,
                      lastInit, pendingRequests, recording, totalCallsCount,
                      endpointOrder, tab, panelVars>>

\* part_007 lines 131-154 and part_009 lines 21-38: the debugger has finished
\* loading the response of a request and its body is handed to the callback
\* of the background script, before or after the request's onCompleted
onResponseReceived ==
  \E id \in DOMAIN requests, body \in ResponseBodies :
    LET match == matchingCall(requests[id].req, 1)
    IN /\ requests[id].stage \in {"sent", "completed"}
       /\ ~requests[id].captured
       /\ IF match = <<>>
          THEN /\ apiCalls' = apiCalls
               /\ requests' = [requests EXCEPT ![id].captured = TRUE]
          ELSE LET matchingId == apiCalls[match[1]].calls[match[2]].requestId
               IN /\ apiCalls' = [apiCalls EXCEPT
                                    ![match[1]].calls[match[2]].responseBody = JString(body)]
                  /\ requests' =
                       [ [requests EXCEPT ![id].captured = TRUE] EXCEPT
                           ![matchingId].bodyAt =
                              IF @ # "none" THEN @
                              ELSE IF requests[matchingId].stage = "completed"
                                   THEN "after" ELSE "before" ]
       /\ UNCHANGED <<clearVars, bundled, rules, initialized, pendingInits, callFrequency, now,
                      last, history, lastInit, pendingRequests, recording, totalCallsCount,
                      endpointOrder, tab, panelVars>>

\* lines 77-91: the reply to the GET_API_CALLS the panel posts on connection
\* and then periodically; one reply is in flight at a time
getApiCalls ==
  /\ \A k \in 1..Len(toPanel) : toPanel[k].type # "API_CALLS_DATA"
  /\ toPanel' = Append(toPanel, [ type |-> "API_CALLS_DATA", endpoint |-> <<>>,
                                  data |-> [e \in DOMAIN apiCalls |-> callsData(apiCalls[e])],
                                  version |-> <<dataVersion>> ])
  /\ UNCHANGED <<clearVars, bundled, rules, initialized, pendingInits, callFrequency, now, last,
                 history, lastInit, bgVars, apiData, summary, storage, securityRulesConfig,
                 panelRules, panelInitialized, panelPendingInits, saveState>>

----------------------------------------------------------------------------
(* Panel (src/panel.js): the data it holds and the security summary *)

\* panel.js line 2379; a finding carries ruleId and no rule field, so
\* ${issue.rule} is the text "undefined"; ${issue.message || ''} is the
\* message, empty when the finding has none
issueKey(issue) == <<issue.severity, "undefined", issue.message>>

\* lines 2376-2383: the first issue of every key, in order
RECURSIVE uniqueIssues(_, _, _)
uniqueIssues(issues, i, acc) ==
  IF i > Len(issues) THEN acc
  ELSE uniqueIssues(issues, i + 1,
         IF \E k \in 1..Len(acc) : issueKey(acc[k]) = issueKey(issues[i])
         THEN acc ELSE Append(acc, issues[i]))

\* lines 2386-2390, for one endpoint and one severity
endpointCount(data, sev) ==
  IF data.hasSecurityIssues
  THEN Len(SelectSeq(uniqueIssues(data.securityIssues, 1, <<>>), LAMBDA v : v.severity = sev))
  ELSE 0

RECURSIVE sumOver(_, _, _)
sumOver(dataMap, endpoints, sev) ==
  IF endpoints = {} THEN 0
  ELSE LET e == CHOOSE x \in endpoints : TRUE
       IN endpointCount(dataMap[e], sev) + sumOver(dataMap, endpoints \ {e}, sev)

\* lines 2363-2392, with no filter set: getFilteredEndpoints yields every endpoint
updateSecuritySummary(dataMap) ==
  [sev \in Severities |-> sumOver(dataMap, DOMAIN dataMap, sev)]

\* API_CALL_DETECTED goes through chrome.runtime.sendMessage, the other
\* messages through the port (part_009 lines 84, 101, 210)
channel(type) == IF type = "API_CALL_DETECTED" THEN "runtime" ELSE "port"

\* a message can be delivered when none was sent before it on its channel:
\* the port and the runtime channel each keep their order
deliverable(i) == \A j \in 1..(i - 1) : channel(toPanel[j].type) # channel(toPanel[i].type)

removeAt(seq, i) == SubSeq(seq, 1, i - 1) \o SubSeq(seq, i + 1, Len(seq))

\* typeof msg.version === 'number'
hasVersion(msg) == Len(msg.version) = 1

\* clearAllDataLocal(), panel.js lines 22-40: the map is emptied and the
\* summary recomputed
clearAllDataLocal ==
  /\ apiData' = <<>>
  /\ summary' = [counts |-> updateSecuritySummary(<<>>), data |-> <<>>]

\* panel.js line 995
staleMessage(msg, current) == hasVersion(msg) /\ msg.version[1] < current

\* port.onMessage, lines 994-1024 (API_CALLS_DATA) and 1025-1029
\* (DATA_CLEARED); chrome.runtime.onMessage, lines 1065-1093 (API_CALL_DETECTED)
panelReceive ==
  \E i \in 1..Len(toPanel) :
    LET msg == toPanel[i]
    IN /\ deliverable(i)
       /\ toPanel' = removeAt(toPanel, i)
       /\ CASE msg.type = "API_CALLS_DATA" ->
                 IF staleMessage(msg, currentDataVersion)
                 THEN UNCHANGED <<apiData, summary, currentDataVersion>>
                 ELSE /\ currentDataVersion' = IF hasVersion(msg) THEN msg.version[1]
                                               ELSE currentDataVersion
                      /\ apiData' = msg.data
                      /\ summary' = [counts |-> updateSecuritySummary(msg.data), data |-> msg.data]
            [] msg.type = "DATA_CLEARED" ->
                 /\ currentDataVersion' = IF hasVersion(msg) THEN msg.version[1]
                                          ELSE currentDataVersion
                 /\ clearAllDataLocal
            [] OTHER ->
                 /\ apiData' = mapSet(apiData, msg.endpoint, msg.data[msg.endpoint])
                 /\ UNCHANGED <<summary, currentDataVersion>>
       /\ UNCHANGED <<bundled, rules, initialized, pendingInits, callFrequency, now, last,
                      history, lastInit, bgVars, storage, securityRulesConfig, panelRules,
                      panelInitialized, panelPendingInits, saveState, dataVersion,
                      toBackground, cleared>>

\* configurations in which rules of one severity carry the same message
\* (here: none) next to the one whose messages all differ
SummaryDocs == {ConfigDoc(RuleIds, m, TRUE) : m \in BOOLEAN}

InitSummary ==
  /\ bundled \in SummaryDocs
  /\ rules = NoRules
  /\ initialized = FALSE
  /\ pendingInits = 0
  /\ callFrequency = <<>>
  /\ now = 0
  /\ last = NoLast
  /\ history = <<>>
  /\ lastInit = [count |-> 0, outcome |-> "none"]
  /\ hostInit

NextSummary ==
  \/ initAtStartup \/ initLoaded
  \/ onBeforeRequest \/ onBeforeSendHeaders \/ onCompleted
  \/ getApiCalls \/ panelReceive

SpecSummary == InitSummary /\ [][NextSummary]_vars

----------------------------------------------------------------------------
(* Panel: the severity shown on an endpoint (panel.js lines 2198-2212, used *)
(* at line 429 on the securityIssues of the endpoint's data)                *)

\* severityOrder[severity] || 0
severityOrder(severity) ==
  CASE severity = "critical" -> 4
    [] severity = "high" -> 3
    [] severity = "medium" -> 2
    [] severity = "low" -> 1
    [] OTHER -> 0

RECURSIVE highestFrom(_, _, _, _)

\* mutant: highestValue is not updated, so every issue of a known severity
\* replaces the one kept
highestFrom_mut(issues, i, highest, highestValue) ==
  LET known == SelectSeq(SubSeq(issues, i, Len(issues)),
                         LAMBDA issue : severityOrder(issue.severity) > highestValue)
  IN IF known = <<>> THEN highest ELSE known[Len(known)].severity

\* issues.forEach of lines 2203-2209, from issue i on
highestFrom(issues, i, highest, highestValue) ==
  IF i > Len(issues) THEN highest
  ELSE LET value == severityOrder(issues[i].severity)
       IN IF value > highestValue
          THEN highestFrom(issues, i + 1, issues[i].severity, value)
          ELSE highestFrom(issues, i + 1, highest, highestValue)

getHighestSeverity(issues) == highestFrom(issues, 1, "low", 0)

MaxIssues == 3        \* findings the background holds for the endpoint at the start

\* a finding of each severity, as analyzeCall builds it from the rule's entry
SeverityFindings ==
  { Finding(r, FullRuleEntry(r, TRUE), [message |-> <<>>, details |-> <<>>, location |-> ""], 0) :
      r \in {"hardcoded-secrets", "xss-risk", "open-redirect", "excessive-data-exposure"} }

\* the analyzer is initialized and the background holds one endpoint with one
\* call and up to MaxIssues accumulated findings; the panel has yet to ask for
\* the data
InitSeverity ==
  /\ bundled = FullConfigDoc(AllRuleIds)
  /\ rules = bundled.rules
  /\ initialized = TRUE
  /\ pendingInits = 0
  /\ callFrequency = <<>>
  /\ now = 0
  /\ last = NoLast
  /\ history = <<>>
  /\ lastInit = [count |-> 1, outcome |-> "loaded"]
  /\ \E issues \in UNION { [1..n -> SeverityFindings] : n \in 0..MaxIssues } :
        apiCalls = mapSet(<<>>, <<Str.GET, <<"/", "a">> >>,
                          [ calls |-> << CallRecord(Str.GET, "https:", <<"/", "a">>, Undefined,
                                                    Undefined, Undefined, 0, Undefined, Undefined) >>,
                            securityIssues |-> issues ])
  /\ pendingRequests = <<>>
  /\ requests = <<>>
  /\ recording = TRUE
  /\ totalCallsCount = 1
  /\ endpointOrder = << <<Str.GET, <<"/", "a">> >> >>
  /\ tab = [panelOpen |-> TRUE, endpoints |-> 0]
  /\ toPanel = <<>>
  /\ apiData = <<>>
  /\ summary = [counts |-> [sev \in Severities |-> 0], data |-> <<>>]
  /\ storage = NoRulesDoc
  /\ securityRulesConfig = NoRulesDoc
  /\ panelRules = NoRules
  /\ panelInitialized = FALSE
  /\ panelPendingInits = 0
  /\ saveState = "none"
  /\ dataVersion = 0
  /\ currentDataVersion = 0
  /\ toBackground = <<>>
  /\ cleared = [clicks |-> 0, processed |-> 0, upTo |-> 0]

NextSeverity == getApiCalls \/ panelReceive

SpecSeverity == InitSeverity /\ [][NextSeverity]_vars

----------------------------------------------------------------------------
(* Clear: the panel's button, the background's CLEAR_DATA handler *)

MaxClears == 1        \* Clear clicks the user confirms per behaviour

\* clearBtn click handler, panel.js lines 1205-1223, the user confirming
clearBtnClick ==
  /\ cleared.clicks < MaxClears
  /\ clearAllDataLocal
  /\ currentDataVersion' = currentDataVersion + 1
  /\ toBackground' = Append(toBackground, [type |-> "CLEAR_DATA"])
  /\ cleared' = [cleared EXCEPT !.clicks = @ + 1]
  /\ UNCHANGED <<bundled, rules, initialized, pendingInits, callFrequency, now, last,
                 history, lastInit, bgVars, toPanel, storage, securityRulesConfig, panelRules,
                 panelInitialized, panelPendingInits, saveState, dataVersion>>

\* part_009 lines 92-101: the background receives CLEAR_DATA
clearData ==
  /\ toBackground # <<>>
  /\ Head(toBackground).type = "CLEAR_DATA"
  /\ toBackground' = Tail(toBackground)
  /\ apiCalls' = <<>>
  /\ endpointOrder' = <<>>
  /\ totalCallsCount' = 0
  /\ dataVersion' = dataVersion + 1
  /\ pendingRequests' = <<>>
  /\ toPanel' = Append(toPanel, [ type |-> "DATA_CLEARED", endpoint |-> <<>>, data |-> <<>>,
                                  version |-> <<dataVersion + 1>> ])
  /\ cleared' = [cleared EXCEPT !.processed = @ + 1, !.upTo = Len(requests)]
  /\ UNCHANGED <<bundled, rules, initialized, pendingInits, callFrequency, now, last,
                 history, lastInit, requests, recording, tab, apiData, summary, storage,
                 securityRulesConfig, panelRules, panelInitialized, panelPendingInits,
                 saveState, currentDataVersion>>

\* part_009 lines 102-103: the background receives SET_RECORDING, which the
\* panel posts when the record checkbox changes (panel.js lines 1250-1253)
setRecording ==
  /\ \E checked \in BOOLEAN : recording' = checked
  /\ UNCHANGED <<bundled, rules, initialized, pendingInits, callFrequency, now, last, history,
                 lastInit, apiCalls, pendingRequests, requests, totalCallsCount, endpointOrder,
                 tab, panelVars, clearVars>>

ClearDocs == {ConfigDoc(RuleIds, TRUE, TRUE)}

InitClear ==
  /\ bundled \in ClearDocs
  /\ rules = NoRules
  /\ initialized = FALSE
  /\ pendingInits = 1
  /\ callFrequency = <<>>
  /\ now = 0
  /\ last = NoLast
  /\ history = <<>>
  /\ lastInit = [count |-> 0, outcome |-> "none"]
  /\ hostInit

NextClear ==
  \/ initLoaded
  \/ onBeforeRequest \/ onBeforeSendHeaders \/ onCompleted
  \/ getApiCalls \/ panelReceive \/ clearBtnClick \/ clearData

SpecClear == InitClear /\ [][NextClear]_vars

----------------------------------------------------------------------------
(* Findings accumulated per call and per endpoint while the events of       *)
(* several requests interleave, under rules of both analysis phases         *)

AccumulateRules ==
  {"insecure-http", "cors-misconfiguration", "excessive-data-exposure", "untrusted-client-identity"}

AccumulateDocs == {FullConfigDoc(AccumulateRules), FullConfigDoc(AccumulateRules \ {"insecure-http"})}

InitAccumulate ==
  /\ bundled \in AccumulateDocs
  /\ rules = NoRules
  /\ initialized = FALSE
  /\ pendingInits = 1
  /\ callFrequency = <<>>
  /\ now = 0
  /\ last = NoLast
  /\ history = <<>>
  /\ lastInit = [count |-> 0, outcome |-> "none"]
  /\ hostInit

NextAccumulate == initLoaded \/ onBeforeRequest \/ onBeforeSendHeaders \/ onCompleted

SpecAccumulate == InitAccumulate /\ [][NextAccumulate]_vars

----------------------------------------------------------------------------
(* The two analysis phases of the background script, every rule configured *)

PhaseDocs == {FullConfigDoc(AllRuleIds), FullConfigDoc(AllRuleIds \ {"insecure-http"})}

InitPhases ==
  /\ bundled \in PhaseDocs
  /\ rules = NoRules
  /\ initialized = FALSE
  /\ pendingInits = 1
  /\ callFrequency = <<>>
  /\ now = 0
  /\ last = NoLast
  /\ history = <<>>
  /\ lastInit = [count |-> 0, outcome |-> "none"]
  /\ hostInit

NextPhases == initLoaded \/ onBeforeRequest \/ onBeforeSendHeaders \/ onCompleted

SpecPhases == InitPhases /\ [][NextPhases]_vars

----------------------------------------------------------------------------
(* Panel: the rules dialog (panel.js lines 2801-2990) *)

\* the rules whose checkbox the user clicks
DialogRules == {"insecure-http", "excessive-data-exposure"}

\* lines 2801-2816: the stored configuration if there is one, else the bundled file
loadedConfig(stored) == IF stored.hasRules THEN stored ELSE bundled

\* loadSecurityRules() as called by initSecurityUI when the panel opens
loadSecurityRules ==
  /\ ~securityRulesConfig.hasRules
  /\ securityRulesConfig' = loadedConfig(storage)
  /\ UNCHANGED <<clearVars, bundled, rules, initialized, pendingInits, callFrequency, now, last,
                 history, lastInit, bgVars, toPanel, apiData, summary, storage, panelRules,
                 panelInitialized, panelPendingInits, saveState>>

\* lines 2902-2904: the change listener of a checkbox; the dialog shows rules
\* only when a configuration is loaded (lines 2859-2861)
toggleRule ==
  \E r \in DialogRules :
    /\ securityRulesConfig.hasRules
    /\ securityRulesConfig' =
         [securityRulesConfig EXCEPT !.rules[r].enabled = ~securityRulesConfig.rules[r].enabled]
    /\ UNCHANGED <<clearVars, bundled, rules, initialized, pendingInits, callFrequency, now, last,
                   history, lastInit, bgVars, toPanel, apiData, summary, storage, panelRules,
                   panelInitialized, panelPendingInits, saveState>>

\* lines 2821-2834, up to the await of securityAnalyzer.init(): the
\* configuration is stored and init() of the panel's analyzer is started
saveSecurityRules ==
  /\ panelPendingInits < MaxInits
  /\ storage' = securityRulesConfig
  /\ panelPendingInits' = panelPendingInits + 1
  /\ saveState' = "saving"
  /\ UNCHANGED <<clearVars, bundled, rules, initialized, pendingInits, callFrequency, now, last,
                 history, lastInit, bgVars, toPanel, apiData, summary, securityRulesConfig,
                 panelRules, panelInitialized>>

\* init() of the panel's analyzer resumes (security-analyzer.js lines 18-22);
\* a save that awaited it is complete when no init() is left pending
panelInitLoaded ==
  /\ panelPendingInits > 0
  /\ bundled.hasRules
  /\ panelPendingInits' = panelPendingInits - 1
  /\ panelRules' = bundled.rules
  /\ panelInitialized' = TRUE
  /\ saveState' = IF saveState = "saving" /\ panelPendingInits = 1 THEN "saved" ELSE saveState
  /\ UNCHANGED <<clearVars, bundled, rules, initialized, pendingInits, callFrequency, now, last,
                 history, lastInit, bgVars, toPanel, apiData, summary, storage,
                 securityRulesConfig>>

\* lines 2839-2853, the user confirming
resetSecurityRules ==
  /\ storage.hasRules
  /\ storage' = NoRulesDoc
  /\ securityRulesConfig' = loadedConfig(NoRulesDoc)
  /\ saveState' = "none"
  /\ UNCHANGED <<clearVars, bundled, rules, initialized, pendingInits, callFrequency, now, last,
                 history, lastInit, bgVars, toPanel, apiData, summary, panelRules,
                 panelInitialized, panelPendingInits>>

SaveDocs == {ConfigDoc(RuleIds, TRUE, TRUE)}

\* the background script has started init(); the panel script has been loaded,
\* which starts init() of its own analyzer (panel.js lines 105-109)
InitSave ==
  /\ bundled \in SaveDocs
  /\ rules = NoRules
  /\ initialized = FALSE
  /\ pendingInits = 1
  /\ callFrequency = <<>>
  /\ now = 0
  /\ last = NoLast
  /\ history = <<>>
  /\ lastInit = [count |-> 0, outcome |-> "none"]
  /\ apiCalls = <<>>
  /\ pendingRequests = <<>>
  /\ requests = <<>>
  /\ recording = TRUE
  /\ totalCallsCount = 0
  /\ endpointOrder = <<>>
  /\ tab = [panelOpen |-> TRUE, endpoints |-> 0]
  /\ toPanel = <<>>
  /\ apiData = <<>>
  /\ summary = [counts |-> [sev \in Severities |-> 0], data |-> <<>>]
  /\ storage = NoRulesDoc
  /\ securityRulesConfig = NoRulesDoc
  /\ panelRules = NoRules
  /\ panelInitialized = FALSE
  /\ panelPendingInits = 1
  /\ saveState = "none"
  /\ dataVersion = 0
  /\ currentDataVersion = 0
  /\ toBackground = <<>>
  /\ cleared = [clicks |-> 0, processed |-> 0, upTo |-> 0]

NextSave ==
  \/ initLoaded \/ panelInitLoaded
  \/ loadSecurityRules \/ toggleRule \/ saveSecurityRules \/ resetSecurityRules
  \/ onBeforeRequest \/ onBeforeSendHeaders \/ onCompleted

SpecSave == InitSave /\ [][NextSave]_vars

----------------------------------------------------------------------------
(* One call record analysed by an analyzer whose init() is awaited: the     *)
(* record is drawn at the start and handed to analyzeCall, repeatedly       *)

InitDrawn(docs, calls) ==
  /\ bundled \in docs
  /\ rules = NoRules
  /\ initialized = FALSE
  /\ pendingInits = 1
  /\ callFrequency = <<>>
  /\ now = 0
  /\ last \in {[NoLast EXCEPT !.call = c, !.after = c] : c \in calls}
  /\ history = <<>>
  /\ lastInit = [count |-> 0, outcome |-> "none"]
  /\ hostInit

analyzeDrawnCall == analyzeCallOn(last.after)

NextDrawn == initLoaded \/ analyzeDrawnCall

\* requests that differ in method, path, body and authorization headers
IdentityMethods == {Str.POST, Str.PUT, Str.PATCH, Str.patch, Str.GET, Str.DELETE}
IdentityPaths == {Str.updatePath, Str.registerPath, Str.LoginPath}

IdentityBodies ==
  { Undefined,
    JString(Str.email),
    EmptyObject,
    JObject(<<Header(Str.email, <<"x">>)>>),
    JObject(<<Header(Str.name, <<"x">>)>>),
    JObject(<< [k |-> Str.user,
                v |-> JObject(<<Header(Str.Email, <<"x">>), Header(Str.name, <<"y">>)>>)],
               Header(Str.userId, <<"1">>) >>) }

IdentityHeaders ==
  { NoHeaders,
    JObject(<<Header(Str.Authorization, Str.BearerEyJ)>>),
    JObject(<<Header(Str.Authorization, Str.eyJ)>>),
    JObject(<<Header(Str.authorization, Str.Basic)>>),
    JObject(<<Header(Str.AUTHORIZATION, Str.bearerEyj)>>),
    JObject(<<Header(Str.Authorization, Str.Basic), Header(Str.auth, Str.eyJ)>>),
    JObject(<<Header(Str.Auth, Str.tokenEyJ)>>),
    JObject(<<Header(Str.Authorization, <<>>), Header(Str.Auth, Str.eyJ)>>),
    JObject(<<Header(Str.XToken, Str.eyJ)>>) }

IdentityCalls ==
  { RequestPhase(m, "https:", p, h, EmptyObject, b) :
      m \in IdentityMethods, p \in IdentityPaths, h \in IdentityHeaders, b \in IdentityBodies }

IdentityDocs == {ConfigDoc(RuleIds, TRUE, TRUE)}

InitUCI == InitDrawn(IdentityDocs, IdentityCalls)

SpecUCI == InitUCI /\ [][NextDrawn]_vars

\* responses that differ in the two CORS headers, each spelled as the server
\* sent it: capitalised or all lower-case
AllowOriginHeaders ==
  {<<>>} \cup {<<Header(n, v)>> : n \in {Str.ACAO, Str.acao}, v \in {Str.star, Str.origin}}

AllowCredentialsHeaders ==
  {<<>>} \cup {<<Header(n, v)>> : n \in {Str.ACAC, Str.acac},
                                   v \in {Str.true, Str.TRUE, Str.false}}

CorsCalls ==
  { CallRecord(m, "https:", <<"/", "a">>, NoHeaders,
               JObject(<<Header(Str.page, <<"1">>)>>), Undefined, 200,
               JObject(c \o <<Header(Str.Accept, Str.star)>> \o o), Undefined) :
      m \in {Str.GET, Str.POST}, o \in AllowOriginHeaders, c \in AllowCredentialsHeaders }
    \cup { RequestPhase(Str.GET, "https:", <<"/", "a">>, NoHeaders, EmptyObject, Undefined) }

CorsDocs == {ConfigDoc(RuleIds, TRUE, TRUE)}

InitCors == InitDrawn(CorsDocs, CorsCalls)

SpecCors == InitCors /\ [][NextDrawn]_vars

\* call records that exercise every checker of the registry, with and
\* without headers, query parameters, request body and response
RegistryMethods == {Str.GET, Str.POST}
RegistryPaths == {<<"/", "a">>, <<"/", "a", "d", "m", "i", "n">>, <<"/", "s", "s", "n", "/", ".", ".", "/", "s", "s", "n", "/", "7">>}

RegistryHeaders ==
  { Undefined,
    JObject(<<Header(Str.Authorization, <<"B", "a", "s", "i", "c", " ", "A", "K", "I", "A">>), Header(<<"X", "-", "U", "s", "e", "r", "-", "E", "m", "a", "i", "l">>, <<"u">>)>>) }

RegistryQueries ==
  { Undefined,
    JObject(<<Header(<<"a", "p", "i", "_", "k", "e", "y">>, <<"1">>), Header(<<"r", "e", "d", "i", "r", "e", "c", "t">>, <<"/", "/", "e">>),
              Header(<<"q">>, <<"'", " ", "o", "r", " ", "1", "<", "s", "c", "r", "i", "p", "t", ">">>), Header(<<"u", "r", "l">>, <<"h", "t", "t", "p", ":", "/", "/", "e", "/", ".", ".", "/">>)>>) }

RegistryBodies ==
  { Undefined,
    JObject(<< Header(<<"p", "a", "s", "s", "w", "o", "r", "d">>, <<"a", "b", "c">>), Header(Str.email, <<"u">>), Header(<<"r", "o", "l", "e">>, <<"x">>),
               [k |-> <<"c", "a", "r", "d">>, v |-> JObject(<<Header(<<"s", "s", "n">>, <<"'", " ", "o", "r", " ", "'", " ", "o", "r", " ", ".", ".", "/">>), [k |-> <<"n">>, v |-> JNumber(7)]>>)],
               Header(<<"c", "a", "l", "l", "b", "a", "c", "k">>, <<"e", ".", "c", "o", "m">>) >>) }

RegistryResponses ==
  { [status |-> 0, responseHeaders |-> Undefined, responseBody |-> Undefined],
    [status |-> 200, responseHeaders |-> EmptyObject, responseBody |-> Undefined],
    [status |-> 500,
     responseHeaders |-> JObject(<<Header(<<"S", "e", "t", "-", "C", "o", "o", "k", "i", "e">>, <<"a", "=", "b", ";", " ", "S", "e", "c", "u", "r", "e">>),
                                   Header(<<"x", "-", "c", "o", "n", "t", "e", "n", "t", "-", "t", "y", "p", "e", "-", "o", "p", "t", "i", "o", "n", "s">>, <<"n", "o", "s", "n", "i", "f", "f">>)>>),
     responseBody |-> JString(<<"E", "x", "c", "e", "p", "t", "i", "o", "n", " ", "s", "s", "n", ":", "1">>)] }

RegistryCalls ==
  { CallRecord(m, IF p = <<"/", "a">> THEN "http:" ELSE "https:", p, h, q, b,
               r.status, r.responseHeaders, r.responseBody) :
      m \in RegistryMethods, p \in RegistryPaths, h \in RegistryHeaders,
      q \in RegistryQueries, b \in RegistryBodies, r \in RegistryResponses }

RegistryDocs ==
  { FullConfigDoc(AllRuleIds),
    FullConfigDoc(AllRuleIds \ {"custom-rule", "insufficient-rate-limiting"}) }

InitRegistry == InitDrawn(RegistryDocs, RegistryCalls)

SpecRegistry == InitRegistry /\ [][NextDrawn]_vars

----------------------------------------------------------------------------
(* Request bodies with the password field at several places, analysed    *)
(* under weak-password-policy alone                                         *)

\* nested objects: empty, with the field under three spellings, without it,
\* and with it one level further down
FieldInner ==
  { EmptyObject,
    JObject(<< [k |-> <<"p", "a", "s", "s", "w", "o", "r", "d">>, v |-> JString(<<"a">>)] >>),
    JObject(<< [k |-> <<"P", "a", "s", "s", "w", "o", "r", "d">>, v |-> JString(<<"b", "b">>)] >>),
    JObject(<< [k |-> <<"x">>, v |-> JString(<<"z", "z", "z", "z", "z", "z", "z">>)] >>),
    JObject(<< [k |-> <<"n">>, v |-> JObject(<< [k |-> <<"P", "A", "S", "S", "W", "O", "R", "D">>, v |-> JString(<<"c", "c", "c">>)] >>)] >>) }

\* the entries an object of the body is made of
FieldEntries ==
  { [k |-> <<"p", "a", "s", "s", "w", "o", "r", "d">>, v |-> JString(<<"d", "d", "d", "d">>)],
    [k |-> <<"P", "a", "s", "s", "W", "o", "r", "d">>, v |-> JString(<<"e", "e", "e", "e", "e">>)],
    [k |-> <<"x">>, v |-> JString(<<"f", "f", "f", "f", "f", "f">>)] }
  \cup { [k |-> <<"u", "s", "e", "r">>, v |-> o] : o \in FieldInner }
  \cup { [k |-> <<"p", "r", "o", "f", "i", "l", "e">>, v |-> o] : o \in FieldInner }

MaxFields == 2

\* JSON objects of at most MaxFields entries with distinct keys, or no body
FieldBodies ==
  {Undefined} \cup
  { JObject(e) : e \in { f \in UNION { [1..n -> FieldEntries] : n \in 0..MaxFields } :
                            \A i, j \in DOMAIN f : i # j => f[i].k # f[j].k } }

FieldCalls ==
  { CallRecord(Str.POST, "https:", <<"/", "a">>, Undefined, Undefined, b, 0, Undefined, Undefined) :
      b \in FieldBodies }

FieldDocs == {FullConfigDoc({"weak-password-policy"})}

InitFields == InitDrawn(FieldDocs, FieldCalls)

SpecFields == InitFields /\ [][NextDrawn]_vars

----------------------------------------------------------------------------
(* Request bodies with credential fields, analysed under                    *)
(* weak-authentication alone.  The values are those of                      *)
(* TESTING_ENCRYPTED_DETECTION.md, lines 55-122, and values at the edges    *)
(* of the rules of isEncryptedOrHashed.                                     *)

\* "Should NOT Flag (Encrypted)", cases 1-5, then: a short text of three
\* dot-separated parts (rule 4), a salted hash (rule 6), 40 characters with
\* an underscore (rule 7)
EncryptedValues ==
  { JString(<<"I", "d", "Z", "M", "A", "2", "r", "d", "z", "V", "B", "i", "|", "Q", "h", "k", "9", "e", "J", "u", "n", "v", "T", "l", "O", "V", "P", "/", "Z", "n", "w", "N", "Z", "P", "w", "=", "=">>),
    JString(<<"U", "2", "F", "s", "d", "G", "V", "k", "X", "1", "/", "R", "7", "p", "8", "p", "K", "5", "Y", "q", "Z", "0", "X", "8", "p", "K", "5", "Y", "q", "Z", "0", "X", "8", "p", "K", "5", "Y", "q", "Z", "0", "=">>),
    JString(<<"5", "e", "8", "8", "4", "8", "9", "8", "d", "a", "2", "8", "0", "4", "7", "1", "5", "1", "d", "0", "e", "5", "6", "f", "8", "d", "c", "6", "2", "9", "2", "7", "7", "3", "6", "0", "3", "d", "0", "d", "6", "a", "a", "b", "b", "d", "d", "6", "2", "a", "1", "1", "e", "f", "7", "2", "1", "d", "1", "5", "4", "2", "d", "8">>),
    JString(<<"e", "y", "J", "h", "b", "G", "c", "i", "O", "i", "J", "I", "U", "z", "I", "1", "N", "i", "I", "s", "I", "n", "R", "5", "c", "C", "I", "6", "I", "k", "p", "X", "V", "C", "J", "9", ".", "e", "y", "J", "z", "d", "W", "I", "i", "O", "i", "I", "x", "M", "j", "M", "0", "N", "T", "Y", "3", "O", "D", "k", "w", "I", "n", "0", ".", "d", "o", "z", "j", "g", "N", "r", "y", "P", "4", "J", "3", "j", "V", "m", "N", "H", "l", "0", "w", "5", "N", "_", "X", "g", "L", "0", "n", "3", "I", "9", "P", "l", "F", "U", "P", "0", "T", "H", "s", "R", "8", "U">>),
    JString(<<"$", "2", "a", "$", "1", "0", "$", "N", "9", "q", "o", "8", "u", "L", "O", "i", "c", "k", "g", "x", "2", "Z", "M", "R", "Z", "o", "M", "y", "e", "I", "j", "Z", "A", "g", "c", "f", "l", "7", "p", "9", "2", "l", "d", "G", "x", "a", "d", "6", "8", "L", "J", "Z", "d", "L", "1", "7", "l", "h", "W", "y">>),
    JString(<<"a", ".", "b", ".", "c">>),
    JString(<<"$", "s", "h", "a", "1", "$", "s", "a", "l", "t", "$", "h", "a", "s", "h">>),
    JString(<<"a", "b", "c", "d", "e", "f", "g", "h", "i", "j", "_", "a", "b", "c", "d", "e", "f", "g", "h", "i", "j", "_", "a", "b", "c", "d", "e", "f", "g", "h", "i", "j", "_", "a", "b", "c", "d", "e", "f", "g">>) }

\* "Should Flag (Plaintext)", cases 1-3, then: 31 base64 characters (under
\* the length of rule 2), 32 base64 characters and an underscore (rule 7
\* wants 40), a number (not a string, line 1010)
PlainValues ==
  { JString(<<"M", "y", "P", "a", "s", "s", "w", "o", "r", "d", "1", "2", "3">>),
    JString(<<"1", "2", "3", "4", "5">>),
    JString(<<"j", "o", "h", "n", ".", "d", "o", "e", "@", "e", "x", "a", "m", "p", "l", "e", ".", "c", "o", "m">>),
    JString(<<"U", "2", "F", "s", "d", "G", "V", "k", "X", "1", "/", "R", "7", "p", "8", "p", "K", "5", "Y", "q", "Z", "0", "X", "8", "p", "K", "5", "Y", "q", "Z", "0">>),
    JString(<<"a", "b", "c", "d", "e", "f", "g", "h", "i", "j", "_", "a", "b", "c", "d", "e", "f", "g", "h", "i", "j", "_", "a", "b", "c", "d", "e", "f", "g", "h", "i", "j">>),
    JNumber(12345) }

CredentialValues == EncryptedValues \cup PlainValues

\* one credential field; two; a field of another name beside a nested one
CredentialBodies ==
  {Undefined}
  \cup { JObject(<< [k |-> <<"p", "a", "s", "s", "w", "o", "r", "d">>, v |-> v] >>) : v \in CredentialValues }
  \cup { JObject(<< [k |-> <<"p", "a", "s", "s", "w", "o", "r", "d">>, v |-> v], [k |-> <<"c", "l", "i", "e", "n", "t", "S", "e", "c", "r", "e", "t">>, v |-> w] >>) :
           v \in CredentialValues, w \in CredentialValues }
  \cup { JObject(<< [k |-> <<"n", "a", "m", "e">>, v |-> JString(<<"M", "y", "P", "a", "s", "s", "w", "o", "r", "d", "1", "2", "3">>)],
                    [k |-> <<"a", "u", "t", "h">>, v |-> JObject(<< [k |-> <<"P", "a", "s", "s", "w", "o", "r", "d">>, v |-> v] >>)] >>) :
           v \in CredentialValues }

CredentialCalls ==
  { CallRecord(Str.POST, "https:", <<"/", "a">>, Undefined, Undefined, b, 0, Undefined, Undefined) :
      b \in CredentialBodies }

CredentialDocs == {FullConfigDoc({"weak-authentication"})}

InitCredentials == InitDrawn(CredentialDocs, CredentialCalls)

SpecCredentials == InitCredentials /\ [][NextDrawn]_vars

----------------------------------------------------------------------------
(* Request bodies with personal-data fields at several depths, analysed     *)
(* under pii-in-request-body alone                                          *)

PathInner ==
  { EmptyObject,
    JObject(<< [k |-> <<"e", "m", "a", "i", "l">>, v |-> JString(<<"a", "@", "b", ".", "c", "o", "m">>)] >>),
    JObject(<< [k |-> <<"n">>, v |-> JObject(<< [k |-> <<"h", "o", "m", "e", "E", "m", "a", "i", "l">>, v |-> JString(<<"c">>)] >>)],
               [k |-> <<"x">>, v |-> JString(<<"d">>)] >>) }

\* the keys user and profile, a key that holds a configured name, and the
\* empty key, each over a nested object; two fields of the body itself
PathEntries ==
  { [k |-> <<"E", "m", "a", "i", "l">>, v |-> JString(<<"e">>)], [k |-> <<"x">>, v |-> JString(<<"f">>)] }
  \cup { [k |-> key, v |-> o] : key \in {<<"u", "s", "e", "r">>, <<"s", "s", "n", "D", "a", "t", "a">>, <<>>}, o \in PathInner }

PathBodies ==
  {Undefined} \cup
  { JObject(e) : e \in { f \in UNION { [1..n -> PathEntries] : n \in 0..MaxFields } :
                            \A i, j \in DOMAIN f : i # j => f[i].k # f[j].k } }

PathCalls ==
  { CallRecord(Str.POST, "https:", <<"/", "a">>, Undefined, Undefined, b, 0, Undefined, Undefined) :
      b \in PathBodies }

InitPaths == InitDrawn({FullConfigDoc({"pii-in-request-body"})}, PathCalls)

SpecPaths == InitPaths /\ [][NextDrawn]_vars

----------------------------------------------------------------------------
(* GET and POST requests whose query parameters carry pagination names in   *)
(* several letter-casings, analysed under excessive-data-exposure alone     *)

PaginationKeys ==
  { <<"l", "i", "m", "i", "t">>, <<"L", "I", "M", "I", "T">>, <<"p", "a", "g", "e">>, <<"P", "a", "g", "e">>, <<"s", "i", "z", "e">>, <<"p", "e", "r", "_", "p", "a", "g", "e">>, <<"P", "e", "r", "_", "P", "a", "g", "e">>,
    <<"p", "a", "g", "e", "S", "i", "z", "e">>, <<"p", "a", "g", "e", "s", "i", "z", "e">>, <<"P", "A", "G", "E", "S", "I", "Z", "E">>, <<"q">>, <<"s", "o", "r", "t">> }

PaginationQueries ==
  { JObject(e) : e \in { f \in UNION { [1..n -> { Header(k, <<"1">>) : k \in PaginationKeys }] :
                                         n \in 0..MaxFields } :
                            \A i, j \in DOMAIN f : i # j => f[i].k # f[j].k } }

PaginationCalls ==
  { CallRecord(m, "https:", <<"/", "a">>, Undefined, q, Undefined, 0, Undefined, Undefined) :
      m \in {Str.GET, Str.POST}, q \in PaginationQueries }

InitPagination == InitDrawn({FullConfigDoc({"excessive-data-exposure"})}, PaginationCalls)

SpecPagination == InitPagination /\ [][NextDrawn]_vars

----------------------------------------------------------------------------
(* Requests whose query parameters carry redirect names in several          *)
(* letter-casings with URL and non-URL values, analysed under open-redirect *)
(* alone                                                                    *)

RedirectKeys == { <<"r", "e", "d", "i", "r", "e", "c", "t">>, <<"R", "e", "d", "i", "r", "e", "c", "t">>, <<"R", "E", "D", "I", "R", "E", "C", "T">>, <<"n", "e", "x", "t">>, <<"N", "e", "x", "t">>, <<"q">> }

RedirectValues == { <<"h", "t", "t", "p", ":", "/", "/", "e">>, <<"h", "t", "t", "p", "s", ":", "/", "/", "e">>, <<"/", "/", "e">>, <<"/", "h", "o", "m", "e">>, <<>> }

RedirectQueries ==
  { JObject(e) : e \in { f \in UNION { [1..n -> { Header(k, v) : k \in RedirectKeys, v \in RedirectValues }] :
                                         n \in 0..MaxFields } :
                            \A i, j \in DOMAIN f : i # j => f[i].k # f[j].k } }

RedirectCalls ==
  { CallRecord(Str.GET, "https:", <<"/", "a">>, Undefined, q, Undefined, 0, Undefined, Undefined) :
      q \in RedirectQueries }

InitRedirect == InitDrawn({FullConfigDoc({"open-redirect"})}, RedirectCalls)

SpecRedirect == InitRedirect /\ [][NextDrawn]_vars

----------------------------------------------------------------------------
(* Memory limits: the page of the inspected tab calls a fixed number of     *)
(* endpoints in turn, long enough for the background to enforce its limits  *)
(* several times; no DevTools panel is open                                 *)

MaxPageRequests == 610    \* requests the page issues per behaviour

\* pages that call one endpoint, one endpoint more than the limit, and more
\* endpoints than requests
PageEndpoints == {1, MAX_TOTAL_ENDPOINTS + 1, MaxPageRequests}

PageRequest(n) ==
  Request(Str.GET, "https:", <<"/">> \o numberToString(n), EmptyObject, Undefined,
          EmptyObject, 200, EmptyObject)

\* the page issues its next request
onPageRequest ==
  /\ Len(requests) < MaxPageRequests
  /\ beforeRequest(PageRequest((Len(requests) % tab.endpoints) + 1))

InitLimits ==
  /\ bundled = NoRulesDoc
  /\ rules = NoRules
  /\ initialized = FALSE
  /\ pendingInits = 0
  /\ callFrequency = <<>>
  /\ now = 0
  /\ last = NoLast
  /\ history = <<>>
  /\ lastInit = [count |-> 0, outcome |-> "none"]
  /\ apiCalls = <<>>
  /\ pendingRequests = <<>>
  /\ requests = <<>>
  /\ recording = TRUE
  /\ totalCallsCount = 0
  /\ endpointOrder = <<>>
  /\ tab \in {[panelOpen |-> FALSE, endpoints |-> n] : n \in PageEndpoints}
  /\ toPanel = <<>>
  /\ apiData = <<>>
  /\ summary = [counts |-> [sev \in Severities |-> 0], data |-> <<>>]
  /\ storage = NoRulesDoc
  /\ securityRulesConfig = NoRulesDoc
  /\ panelRules = NoRules
  /\ panelInitialized = FALSE
  /\ panelPendingInits = 0
  /\ saveState = "none"
  /\ dataVersion = 0
  /\ currentDataVersion = 0
  /\ toBackground = <<>>
  /\ cleared = [clicks |-> 0, processed |-> 0, upTo |-> 0]

NextLimits == onPageRequest

SpecLimits == InitLimits /\ [][NextLimits]_vars

----------------------------------------------------------------------------
(* Rate limiting behind the listeners: every exchange is analysed at its    *)
(* request phase and at its response phase, the clock advancing             *)

ExchangeRequests ==
  { \* no rate-limit header anywhere
    Request(Str.GET, "https:", <<"/", "a">>, EmptyObject, Undefined,
            JObject(<<Header(Str.Accept, Str.star)>>), 200, EmptyObject),
    \* same path, other method: another endpoint
    Request(Str.POST, "https:", <<"/", "a">>, EmptyObject, Undefined,
            JObject(<<Header(Str.Accept, Str.star)>>), 200, EmptyObject),
    \* the request itself carries a rate-limit header
    Request(Str.GET, "https:", <<"/", "a">>, EmptyObject, Undefined,
            JObject(<<Header(Str.XRateLimitLimit, <<"9">>)>>), 200, EmptyObject) }

\* the page issues a request once its earlier ones have completed
onExchangeRequest ==
  \E req \in ExchangeRequests :
     /\ Len(requests) < MaxRequests
     /\ \A id \in DOMAIN requests : requests[id].stage = "completed"
     /\ beforeRequest(req)

InitExchange ==
  /\ bundled = FullConfigDoc({"insufficient-rate-limiting"})
  /\ rules = NoRules
  /\ initialized = FALSE
  /\ pendingInits = 1
  /\ callFrequency = <<>>
  /\ now = 0
  /\ last = NoLast
  /\ history = <<>>
  /\ lastInit = [count |-> 0, outcome |-> "none"]
  /\ hostInit

NextExchange ==
  initLoaded \/ onExchangeRequest \/ onBeforeSendHeaders \/ onCompleted \/ tick

SpecExchange == InitExchange /\ [][NextExchange]_vars

----------------------------------------------------------------------------
(* Response bodies: the debugger delivers the body of a response before or  *)
(* after the request completes, under the two rules that read the body      *)

BodyRules == {"pii-in-response-body", "verbose-error-messages"}

CaptureRequests ==
  { Request(Str.GET, "https:", <<"/", "a">>, EmptyObject, Undefined, EmptyObject, 500, EmptyObject),
    \* the same URL under another method: another endpoint
    Request(Str.POST, "https:", <<"/", "a">>, EmptyObject, Undefined, EmptyObject, 500, EmptyObject),
    Request(Str.GET, "https:", <<"/", "b">>, EmptyObject, Undefined, EmptyObject, 500, EmptyObject) }

\* the page issues a request once its earlier ones have completed; their
\* bodies may still be on the way
onCaptureRequest ==
  \E req \in CaptureRequests :
     /\ Len(requests) < MaxRequests
     /\ \A id \in DOMAIN requests : requests[id].stage = "completed"
     /\ beforeRequest(req)

InitCapture ==
  /\ bundled = FullConfigDoc(BodyRules)
  /\ rules = NoRules
  /\ initialized = FALSE
  /\ pendingInits = 1
  /\ callFrequency = <<>>
  /\ now = 0
  /\ last = NoLast
  /\ history = <<>>
  /\ lastInit = [count |-> 0, outcome |-> "none"]
  /\ hostInit

NextCapture ==
  initLoaded \/ onCaptureRequest \/ onBeforeSendHeaders \/ onCompleted \/ onResponseReceived

SpecCapture == InitCapture /\ [][NextCapture]_vars

----------------------------------------------------------------------------
(* Recording switched on and off, and the data cleared, while requests are  *)
(* in flight                                                                *)

InitRecording ==
  /\ bundled = NoRulesDoc
  /\ rules = NoRules
  /\ initialized = FALSE
  /\ pendingInits = 0
  /\ callFrequency = <<>>
  /\ now = 0
  /\ last = NoLast
  /\ history = <<>>
  /\ lastInit = [count |-> 0, outcome |-> "none"]
  /\ hostInit

NextRecording ==
  \/ onBeforeRequest \/ onBeforeSendHeaders \/ onCompleted
  \/ setRecording \/ clearBtnClick \/ clearData

SpecRecording == InitRecording /\ [][NextRecording]_vars

----------------------------------------------------------------------------
(* Properties *)

withoutRule(vulns, r) == SelectSeq(vulns, LAMBDA v : v.ruleId # r)
ofRule(vulns, r) == SelectSeq(vulns, LAMBDA v : v.ruleId = r)
setEnabled(R, r, b) == [R EXCEPT ![r].enabled = b]
lastRan == last.valid /\ last.initialized /\ ~isNoRules(last.rules)

\* C1: a rule with enabled=false is never invoked by analyzeCall, and
\* switching one enabled rule off removes from the returned list exactly the
\* findings carrying its ruleId, every other finding staying as it was.
C1_DisabledRuleNeverRuns ==
  lastRan =>
    \A r \in RuleIds :
      IF last.rules[r].enabled
      THEN LET off == analyzeCall(setEnabled(last.rules, r, FALSE), TRUE,
                                  last.call, last.freq, last.time)
           IN /\ r \notin off.invoked
              /\ off.vulnerabilities = withoutRule(last.vulnerabilities, r)
      ELSE /\ r \notin last.invoked
           /\ ofRule(last.vulnerabilities, r) = <<>>

\* a rule is off that would have reported on this call, next to rules that did report
C1_Witness ==
  /\ lastRan
  /\ last.vulnerabilities # <<>>
  /\ \E r \in RuleIds :
       /\ ~last.rules[r].enabled
       /\ ofRule(analyzeCall(setEnabled(last.rules, r, TRUE), TRUE,
                             last.call, last.freq, last.time).vulnerabilities, r) # <<>>

\* C2: when a checker throws, every other enabled rule is still evaluated and
\* its findings are those of the same analysis without the throwing rule; the
\* list holds no finding of the rule that threw.
C2_ThrowIsIsolated ==
  lastRan =>
    \A r \in last.threw :
      /\ \A q \in RuleIds : last.rules[q].enabled => q \in last.invoked
      /\ ofRule(last.vulnerabilities, r) = <<>>
      /\ last.vulnerabilities =
           analyzeCall(setEnabled(last.rules, r, FALSE), TRUE,
                       last.call, last.freq, last.time).vulnerabilities

\* a checker threw, and rules before and after it in the loop reported
C2_Witness ==
  /\ lastRan
  /\ last.threw = {"excessive-data-exposure"}
  /\ ofRule(last.vulnerabilities, "insecure-http") # <<>>
  /\ ofRule(last.vulnerabilities, "insufficient-rate-limiting") # <<>>

\* C3: while the init() that completed most recently failed to load the
\* configuration, analyzeCall returns the empty list and runs no checker,
\* also when an earlier init() had left a rule set loaded.
C3_FailedInitRefuses ==
  last.valid /\ last.lastInit = "failed" =>
    last.vulnerabilities = <<>> /\ last.invoked = {}

\* an analysis after a failed init that followed a successful one, on a call
\* the loaded rule set reports on
C3_Witness ==
  /\ last.valid /\ last.lastInit = "failed"
  /\ ~isNoRules(last.rules)
  /\ analyzeCall(last.rules, TRUE, last.call, last.freq, last.time).vulnerabilities # <<>>

\* C4 (as stated): once a rule has been unchecked in the rules dialog and the
\* configuration saved, the analyses that follow use the persisted
\* configuration: they yield no finding of a rule the persisted configuration
\* has switched off.
C4_SavedRulesTakeEffect ==
  last.valid /\ last.persisted.hasRules =>
    \A r \in RuleIds :
      ~last.persisted.rules[r].enabled => ofRule(last.vulnerabilities, r) = <<>>

\* analyses of the endpoint of history[n] that fall inside the time window
\* ending at history[n], history[n] included
inWindowOf(n) ==
  {j \in 1..n : /\ history[j].endpoint = history[n].endpoint
                /\ history[n].time - history[j].time < TimeWindow}

\* C5: with the rule running and no rate-limit header on the call, the k-th
\* analysis of a method+path inside the time window yields no
\* insufficient-rate-limiting finding for k <= threshold and exactly one for
\* k = threshold + 1.
C5_FindingOnCallAfterThreshold ==
  \A n \in 1..Len(history) :
    ( /\ \A j \in inWindowOf(n) : history[j].active
      /\ ~history[n].requestLimit /\ ~history[n].responseLimit )
    => /\ Cardinality(inWindowOf(n)) <= Threshold => history[n].findings = 0
       /\ Cardinality(inWindowOf(n)) = Threshold + 1 => history[n].findings = 1

\* the (threshold+1)-th analysis inside the window has happened, after one
\* that had fallen out of the window
C5_Witness ==
  \E n \in 1..Len(history) :
    /\ \A j \in inWindowOf(n) : history[j].active
    /\ ~history[n].requestLimit /\ ~history[n].responseLimit
    /\ Cardinality(inWindowOf(n)) = Threshold + 1
    /\ history[n].findings = 1
    /\ \E j \in 1..n : history[j].endpoint = history[n].endpoint /\ j \notin inWindowOf(n)

\* C6 (as stated): an insufficient-rate-limiting finding is emitted only if
\* the call's response carries no rate-limit header.
C6_NoFindingWithResponseHeader ==
  \A n \in 1..Len(history) : history[n].findings > 0 => ~history[n].responseLimit

stripTimestamps(vulns) ==
  [i \in 1..Len(vulns) |->
     [ruleId |-> vulns[i].ruleId, severity |-> vulns[i].severity, name |-> vulns[i].name,
      message |-> vulns[i].message, details |-> vulns[i].details,
      location |-> vulns[i].location]]

\* the list a second analyzeCall of the same record would return now
again == analyzeCall(rules, initialized, last.call, callFrequency, now).vulnerabilities
inSuccession == lastRan /\ rules = last.rules /\ initialized = last.initialized

\* C7 (as stated): analysing the same call record again returns the same
\* list up to the timestamps.
C7_SecondAnalysisEqual ==
  inSuccession => stripTimestamps(again) = stripTimestamps(last.vulnerabilities)

\* C7 (amended): analysing the same call record again returns the same list
\* up to the timestamps and up to the findings of insufficient-rate-limiting.
C7_SecondAnalysisEqualButRate ==
  inSuccession =>
    stripTimestamps(withoutRule(again, "insufficient-rate-limiting"))
      = stripTimestamps(withoutRule(last.vulnerabilities, "insufficient-rate-limiting"))

\* the second analysis reports, and differs from the first in the rate finding only
C7_Witness ==
  /\ inSuccession
  /\ withoutRule(last.vulnerabilities, "insufficient-rate-limiting") # <<>>
  /\ stripTimestamps(again) # stripTimestamps(last.vulnerabilities)

\* the (severity, ruleId, message) triples of one severity among the findings
distinctTriples(issues, sev) ==
  { <<issues[i].severity, issues[i].ruleId, issues[i].message>> :
      i \in {k \in 1..Len(issues) : issues[k].severity = sev} }

RECURSIVE triplesOver(_, _, _)
triplesOver(dataMap, endpoints, sev) ==
  IF endpoints = {} THEN 0
  ELSE LET e == CHOOSE x \in endpoints : TRUE
       IN Cardinality(distinctTriples(dataMap[e].securityIssues, sev))
            + triplesOver(dataMap, endpoints \ {e}, sev)

\* C8 (as stated): per severity, the summary is the sum over the endpoints of
\* the number of distinct (severity, ruleId, message) triples among the
\* endpoint's accumulated findings: findings that differ only in details or
\* timestamp count once, findings of different rules count separately.
C8_SummaryCountsDistinctTriples ==
  \A sev \in Severities :
    summary.counts[sev] = triplesOver(summary.data, DOMAIN summary.data, sev)

\* the names under which the checker looks for the authorization header, in
\* the order it tries them
AuthFamily == <<Str.Authorization, Str.authorization, Str.AUTHORIZATION, Str.Auth, Str.auth>>

pathExcluded(call, rule) ==
  \E i \in 1..Len(rule.excludeEndpoints) :
    includes(toLowerCase(call.url.pathname), toLowerCase(rule.excludeEndpoints[i]))

\* the dotted paths of the fields, at any depth, whose name contains an
\* identity-field name, letter case aside
RECURSIVE matchedPaths(_, _, _)
matchedPaths(obj, prefix, names) ==
  IF obj.t # "object" THEN {}
  ELSE UNION { LET key == obj.e[i].k
                   path == IF prefix = <<>> THEN key ELSE prefix \o Str.dot \o key
               IN (IF \E n \in 1..Len(names) : includes(toLowerCase(key), toLowerCase(names[n]))
                   THEN {path} ELSE {})
                  \cup matchedPaths(obj.e[i].v, path, names)
               : i \in 1..Len(obj.e) }

\* some header of the family has a value containing 'eyJ'
someAuthHeaderHasEyJ(headers) ==
  \E i \in 1..Len(headers.e) :
    /\ \E n \in 1..Len(AuthFamily) : headers.e[i].k = AuthFamily[n]
    /\ headers.e[i].v.t = "string" /\ includes(headers.e[i].v.s, Str.eyJ)

\* the value of the first header of the family that is present and not empty
firstAuthHeader(headers) ==
  LET present == {n \in 1..Len(AuthFamily) : getProperty(headers, AuthFamily[n]) # <<>>}
  IN IF present = {} THEN <<>>
     ELSE getProperty(headers, AuthFamily[CHOOSE n \in present : \A m \in present : n <= m])

identityFindings == ofRule(last.vulnerabilities, "untrusted-client-identity")

\* the untrusted-client-identity findings are exactly one finding listing the
\* matched paths if `expected`, and none otherwise
identityOutcome(expected) ==
  LET rule == last.rules["untrusted-client-identity"]
      paths == matchedPaths(orEmptyObject(last.call.requestBody), <<>>, rule.identityFields)
  IN IF expected
     THEN /\ Len(identityFindings) = 1
          /\ LET fields == identityFindings[1].details.fields
             IN /\ {fields[k] : k \in 1..Len(fields)} = paths
                /\ Len(fields) = Cardinality(paths)
     ELSE identityFindings = <<>>

identityRan == lastRan /\ last.rules["untrusted-client-identity"].enabled

responseHeader(call, name, lower) ==
  LET headers == orEmptyObject(call.responseHeaders)
      at == {i \in 1..Len(headers.e) : headers.e[i].k \in {name, lower}}
  IN IF at = {} THEN <<>> ELSE headers.e[CHOOSE i \in at : TRUE].v.s

corsFindings == ofRule(last.vulnerabilities, "cors-misconfiguration")

----------------------------------------------------------------------------
(* Clear and stale data *)

\* requests the background captured before it processed the CLEAR_DATA of
\* the latest confirmed Clear
capturedBeforeClear ==
  IF cleared.processed < cleared.clicks THEN 1..Len(requests) ELSE 1..cleared.upTo

\* request ids of the calls in the panel's endpoint map
panelCallIds ==
  UNION { {apiData[e].calls[k].requestId : k \in 1..Len(apiData[e].calls)} : e \in DOMAIN apiData }

\* C11: once the user has confirmed Clear, the panel's endpoint map holds no
\* call that the background captured before it processed CLEAR_DATA,
\* whatever the order in which API_CALLS_DATA, DATA_CLEARED and
\* API_CALL_DETECTED messages in flight are delivered.
C11_NoStaleCallAfterClear ==
  cleared.clicks > 0 => panelCallIds \cap capturedBeforeClear = {}

----------------------------------------------------------------------------
(* Request phase and response phase *)

\* the rules the audit lists as response-based (SECURITY_AUDIT_2025-10-18.md
\* lines 139-146)
ResponseRules ==
  { "missing-response-security-headers", "cors-misconfiguration", "insecure-cookies",
    "verbose-error-messages", "pii-in-response-body" }

\* the call as onBeforeSendHeaders analyses it: nothing of the response is there
requestPhase(call) ==
  call.status = 0 /\ call.responseHeaders.t = "undefined" /\ call.responseBody.t = "undefined"

\* C12: an analysis in the request phase yields no finding of a
\* response-based rule; missing-response-security-headers,
\* cors-misconfiguration, insecure-cookies, verbose-error-messages and
\* pii-in-response-body produce findings in the response phase only.
C12_ResponseRulesOnlyInResponsePhase ==
  last.valid /\ requestPhase(last.call) =>
    \A i \in 1..Len(last.vulnerabilities) : last.vulnerabilities[i].ruleId \notin ResponseRules

----------------------------------------------------------------------------
(* Summary of an analysis *)

\* C13: the summary of an analysis lets a caller tell an analysis made while
\* no rule was active from one in which rules ran and found nothing: the
\* two summaries differ.
C13_SummaryTellsIdleFromClean ==
  /\ last.valid /\ last.idle.seen
  /\ activeRules(last.rules, last.initialized) # {}
  /\ last.vulnerabilities = <<>>
  => last.summary # last.idle.summary

----------------------------------------------------------------------------
(* Rules without checker, locations, partial contexts *)

\* the analysis of the same call by the same analyzer at the same time with
\* rule r off
lastWithout(r) ==
  analyzeCall(setEnabled(last.rules, r, FALSE), last.initialized, last.call, last.freq, last.time)

Locations ==
  { "url", "headers", "body", "query", "response-headers", "response-body", "protocol",
    "path", "parameters", "general" }

partialContext(call) ==
  \/ call.requestBody = Undefined
  \/ call.allHeaders = Undefined
  \/ (call.status = 0 /\ call.responseHeaders = Undefined /\ call.responseBody = Undefined)

\* C17: in the analysis of a call that lacks a request body, lacks headers or
\* lacks every response field, no checker throws and the checker of every
\* enabled rule that has one is run to its end
C17_PartialContextNoThrow ==
  (last.valid /\ partialContext(last.call)) =>
     /\ last.threw = {}
     /\ activeRules(last.rules, last.initialized) \cap CheckerIds = last.invoked

\* an analysis under 26 enabled rules of a call that lacks body, headers,
\* query parameters and all response fields, with findings
C17_Witness ==
  /\ last.valid
  /\ last.call.requestBody = Undefined
  /\ last.call.allHeaders = Undefined
  /\ last.call.queryParams = Undefined
  /\ last.call.status = 0
  /\ last.call.responseHeaders = Undefined
  /\ last.call.responseBody = Undefined
  /\ last.invoked = CheckerIds
  /\ last.vulnerabilities # <<>>

\* the keys and values of an object in the order in which a depth-first
\* walk meets them: each entry, then the entries of its value
RECURSIVE preorder(_, _)
preorder(e, i) ==
  IF i > Len(e) THEN <<>>
  ELSE <<e[i]>> \o (IF e[i].v.t = "object" THEN preorder(e[i].v.e, 1) ELSE <<>>)
       \o preorder(e, i + 1)

isField(en, fieldName) == toLowerCase(en.k) = toLowerCase(fieldName)

\* the lengths weak-password-policy reports for the body of the last call
reportedLengths ==
  LET found == ofRule(last.vulnerabilities, "weak-password-policy")
  IN [i \in 1..Len(found) |-> found[i].details.actualLength]

\* the body has the field among its own keys and, earlier in insertion
\* order, a nested object that contains it
ownAfterNested(body, fieldName) ==
  /\ body.t = "object"
  /\ \E j \in 1..Len(body.e) :
        /\ isField(body.e[j], fieldName)
        /\ \E i \in 1..(j - 1) :
              /\ body.e[i].v.t = "object"
              /\ \E k \in 1..Len(preorder(body.e[i].v.e, 1)) :
                    isField(preorder(body.e[i].v.e, 1)[k], fieldName)

credentialsCheck(R) ==
  SelectSeq(R["weak-authentication"].checks, LAMBDA c : c.type = "credentials_in_body")[1]

\* the field lists of the credentials-in-body findings of the last analysis
reportedCredentials ==
  LET found == SelectSeq(ofRule(last.vulnerabilities, "weak-authentication"),
                         LAMBDA v : v.location = "body")
  IN [i \in 1..Len(found) |-> found[i].details.fields]

\* C19: the credentials-in-body sub-check yields a finding exactly when some
\* body field with a configured credential name holds a plaintext value, the
\* finding lists the paths of the plaintext fields only, and a body whose
\* credential fields all hold encrypted or hashed values yields none
C19_CredentialsInBody ==
  lastRan =>
     LET found == findFieldsInObject(orEmptyObject(last.call.requestBody),
                                     credentialsCheck(last.rules).fields, TRUE)
         plain == SelectSeq(found, LAMBDA item : item.value \in PlainValues)
     IN /\ \A i \in 1..Len(found) : found[i].value \in CredentialValues
        /\ reportedCredentials =
             IF plain = <<>> THEN <<>>
             ELSE << [i \in 1..Len(plain) |-> plain[i].path] >>

\* a body whose password is a bcrypt hash and whose clientSecret is plain:
\* one finding, which lists clientSecret alone
C19_Witness ==
  /\ lastRan
  /\ last.call.requestBody.t = "object"
  /\ Len(last.call.requestBody.e) = 2
  /\ last.call.requestBody.e[1].v = JString(<<"$", "2", "a", "$", "1", "0", "$", "N", "9", "q", "o", "8", "u", "L", "O", "i", "c", "k", "g", "x", "2", "Z", "M", "R", "Z", "o", "M", "y", "e", "I", "j", "Z", "A", "g", "c", "f", "l", "7", "p", "9", "2", "l", "d", "G", "x", "a", "d", "6", "8", "L", "J", "Z", "d", "L", "1", "7", "l", "h", "W", "y">>)
  /\ last.call.requestBody.e[2].v = JString(<<"j", "o", "h", "n", ".", "d", "o", "e", "@", "e", "x", "a", "m", "p", "l", "e", ".", "c", "o", "m">>)
  /\ reportedCredentials = << << <<"c", "l", "i", "e", "n", "t", "S", "e", "c", "r", "e", "t">> >> >>

\* the rules that apply configured patterns to the url or to the whole
\* request text, and those that apply them to each text value of the call
NamedPatternRules == {"sensitive-data-in-url", "hardcoded-secrets"}
ValuePatternRules == {"sql-injection-risk", "xss-risk", "path-traversal-risk"}

\* the text values a rule of ValuePatternRules tests, lines 356-359, 389-392
\* and 422-426
textValues(ruleId, callDetails) ==
  LET ctx == Context(callDetails)
      values == objectValues(ctx.queryParams) \o getDeepValues(ctx.requestBody)
  IN SelectSeq(IF ruleId = "path-traversal-risk"
               THEN <<JString(href(ctx.url))>> \o values ELSE values,
               LAMBDA v : v.t = "string")

\* the findings of the last analysis for one pattern of a rule
findingsOfType(ruleId, name) ==
  SelectSeq(ofRule(last.vulnerabilities, ruleId), LAMBDA v : v.details.type = name)
findingsOfPattern(ruleId, pattern) ==
  SelectSeq(ofRule(last.vulnerabilities, ruleId), LAMBDA v : v.details.pattern = pattern)

onePerNamedPattern ==
  \A r \in NamedPatternRules \cap activeRules(last.rules, last.initialized) :
     \A i \in 1..Len(last.rules[r].patterns) :
        Len(findingsOfType(r, last.rules[r].patterns[i].k)) <= 1

\* C20 as stated: an analysis yields at most one finding per configured
\* pattern of each of the five pattern-matched rules
C20_OneFindingPerPattern ==
  lastRan =>
     /\ onePerNamedPattern
     /\ \A r \in ValuePatternRules \cap activeRules(last.rules, last.initialized) :
           \A i \in 1..Len(last.rules[r].patterns) :
              Len(findingsOfPattern(r, last.rules[r].patterns[i])) <= 1

\* C20 as amended: at most one finding per pattern for sensitive-data-in-url
\* and hardcoded-secrets; for sql-injection-risk, xss-risk and
\* path-traversal-risk one finding per pattern and per text value of the
\* call that matches it, however often the pattern occurs in the value
C20_OneFindingPerPatternAndValue ==
  lastRan =>
     /\ onePerNamedPattern
     /\ \A r \in ValuePatternRules \cap activeRules(last.rules, last.initialized) :
           \A i \in 1..Len(last.rules[r].patterns) :
              LET pattern == last.rules[r].patterns[i]
              IN Len(findingsOfPattern(r, pattern)) =
                   Len(SelectSeq(textValues(r, last.call),
                                 LAMBDA v : testIgnoreCase(pattern, v.s)))

\* an analysis of a call whose url holds the pattern ssn twice, whose query
\* parameter q and body field card.ssn both match the pattern "' or ", the
\* latter twice: one finding for ssn in the url, two for "' or "
C20_Witness ==
  /\ lastRan
  /\ last.call.url.pathname = <<"/", "s", "s", "n", "/", ".", ".", "/", "s", "s", "n", "/", "7">>
  /\ Len(findingsOfType("sensitive-data-in-url", <<"s", "s", "n">>)) = 1
  /\ Len(findingsOfType("hardcoded-secrets", <<"a", "w", "s">>)) = 1
  /\ Len(findingsOfPattern("sql-injection-risk", <<"'", " ", "o", "r", " ">>)) = 2
  /\ Len(findingsOfPattern("path-traversal-risk", <<".", ".", "/">>)) = 3

\* critical > high > medium > low
SeverityRanking == <<"low", "medium", "high", "critical">>
ranked(severity) == CHOOSE k \in 1..Len(SeverityRanking) : SeverityRanking[k] = severity

\* the severities of the findings the panel holds for an endpoint
severitiesOf(e) ==
  {apiData[e].securityIssues[i].severity : i \in 1..Len(apiData[e].securityIssues)}

\* C21: the highest severity of an endpoint that has findings is the
\* severity of one of its findings, and none of its findings ranks above it
\* in the order critical > high > medium > low
C21_HighestSeverityIsMaximum ==
  \A e \in DOMAIN apiData :
     apiData[e].securityIssues # <<>> =>
        LET highest == getHighestSeverity(apiData[e].securityIssues)
        IN /\ highest \in severitiesOf(e)
           /\ \A sev \in severitiesOf(e) : ranked(sev) <= ranked(highest)

\* the panel holds an endpoint whose findings are a low, a high and a
\* medium one, in this order
C21_Witness ==
  \E e \in DOMAIN apiData :
     LET issues == apiData[e].securityIssues
     IN /\ Len(issues) = 3
        /\ issues[1].severity = "low"
        /\ issues[2].severity = "high"
        /\ issues[3].severity = "medium"
        /\ getHighestSeverity(issues) = "high"

\* every key of an object with the keys above it, root first, and its value,
\* in the order of a depth-first walk
RECURSIVE keySequences(_, _, _)
keySequences(e, i, above) ==
  IF i > Len(e) THEN <<>>
  ELSE << [keys |-> Append(above, e[i].k), value |-> e[i].v] >>
       \o (IF e[i].v.t = "object" THEN keySequences(e[i].v.e, 1, Append(above, e[i].k))
           ELSE <<>>)
       \o keySequences(e, i + 1, above)

\* keys.join('.')
RECURSIVE dotJoined(_)
dotJoined(keys) ==
  IF Len(keys) = 1 THEN keys[1]
  ELSE keys[1] \o <<".">> \o dotJoined(Tail(keys))

containsFragment(key, fieldNames) ==
  \E f \in 1..Len(fieldNames) : includes(toLowerCase(key), toLowerCase(fieldNames[f]))

\* one entry for each key that contains a fragment, with its dot-joined path
\* and its value
expectedFields(obj, fieldNames) ==
  LET matching == SelectSeq(keySequences(obj.e, 1, <<>>),
                            LAMBDA en : containsFragment(en.keys[Len(en.keys)], fieldNames))
  IN [i \in 1..Len(matching) |->
        [path |-> dotJoined(matching[i].keys), value |-> matching[i].value]]

\* C22: findFieldsInObject yields exactly one entry for each key, at any
\* depth, whose name contains a given fragment, letter case ignored, and
\* none for another key; the path of an entry is the dot-joined sequence of
\* the keys from the root, and with includeValues the entry carries the
\* key's value.  Stated for the body of the analysed call and the fields of
\* pii-in-request-body, whose finding lists the paths.
C22_OneEntryPerMatchingKey ==
  (lastRan /\ last.call.requestBody.t = "object") =>
     LET fieldNames == last.rules["pii-in-request-body"].fields
         expected == expectedFields(last.call.requestBody, fieldNames)
         paths == [i \in 1..Len(expected) |-> expected[i].path]
         reported == ofRule(last.vulnerabilities, "pii-in-request-body")
     IN /\ findFieldsInObject(last.call.requestBody, fieldNames, TRUE) = expected
        /\ findFieldsInObject(last.call.requestBody, fieldNames, FALSE) = paths
        /\ IF paths = <<>> THEN reported = <<>>
           ELSE Len(reported) = 1 /\ reported[1].details.fields = paths

equalsIgnoreCase(a, b) == toLowerCase(a) = toLowerCase(b)

carriesPagination(queryParams) ==
  \E i \in 1..Len(queryParams.e) :
     \E name \in PaginationNames : equalsIgnoreCase(queryParams.e[i].k, name)

\* C23: excessive-data-exposure emits a finding exactly when the method is
\* GET and no query-parameter name equals, ignoring case, one of limit, page,
\* size, per_page, pageSize; a GET request carrying any one of the five
\* yields no finding.
C23_FindingIffNoPagination ==
  (lastRan /\ last.call.queryParams.t = "object") =>
     ( ofRule(last.vulnerabilities, "excessive-data-exposure") # <<>>
       <=> ( last.call.method = Str.GET /\ ~carriesPagination(last.call.queryParams) ) )

\* the query string carries the parameter under some letter-casing of its
\* name with a value that starts with http://, https:// or //
redirectsVia(queryParams, param) ==
  \E i \in 1..Len(queryParams.e) :
     /\ equalsIgnoreCase(queryParams.e[i].k, param)
     /\ queryParams.e[i].v.t = "string"
     /\ looksLikeRedirect(queryParams.e[i].v.s)

\* C24: open-redirect emits a finding for every configured redirect
\* parameter that occurs in the query string under any letter-casing of its
\* name and whose value starts with http://, https:// or //.
C24_FindingPerRedirectParameter ==
  (lastRan /\ last.call.queryParams.t = "object") =>
     LET params == last.rules["open-redirect"].params
         reported == ofRule(last.vulnerabilities, "open-redirect")
     IN \A p \in 1..Len(params) :
           redirectsVia(last.call.queryParams, params[p])
             => \E i \in 1..Len(reported) : reported[i].details.param = params[p]

isPrefix(s, t) == Len(s) <= Len(t) /\ SubSeq(t, 1, Len(s)) = s

\* every finding of every call record is in the list of the record's endpoint
callFindingsHeld(map) ==
  \A e \in DOMAIN map :
     \A i \in 1..Len(map[e].calls) :
        \A k \in 1..Len(map[e].calls[i].securityIssues) :
           \E m \in 1..Len(map[e].securityIssues) :
              map[e].securityIssues[m] = map[e].calls[i].securityIssues[k]

withinLimits(slack) ==
  /\ Len(endpointOrder) <= MAX_TOTAL_ENDPOINTS + slack
  /\ \A e \in DOMAIN apiCalls : Len(apiCalls[e].calls) <= MAX_CALLS_PER_ENDPOINT + slack

\* `after` is what is left of `before`, or of `before` with one element
\* appended, once elements were removed from its front
oldestRemoved(before, after) ==
  \/ Len(after) <= Len(before) /\ after = SubSeq(before, Len(before) - Len(after) + 1, Len(before))
  \/ /\ 0 < Len(after) /\ Len(after) <= Len(before) + 1
     /\ after = SubSeq(Append(before, after[Len(after)]), Len(before) - Len(after) + 2, Len(before) + 1)

\* C26: after any sequence of captured requests the background holds at most
\* MAX_TOTAL_ENDPOINTS endpoints and at most MAX_CALLS_PER_ENDPOINT calls per
\* endpoint whenever the total call count is a multiple of 50, and never more
\* than 49 above either limit in between; eviction removes the
\* oldest-inserted endpoints and the oldest calls first.
C26_MemoryLimits ==
  [][ /\ (totalCallsCount' % EnforceEvery = 0 => withinLimits(0)')
      /\ withinLimits(EnforceEvery - 1)'
      /\ DOMAIN apiCalls' = {endpointOrder'[i] : i \in 1..Len(endpointOrder')}
      /\ oldestRemoved(endpointOrder, endpointOrder')
      /\ \A e \in DOMAIN apiCalls' :
            oldestRemoved(IF e \in DOMAIN apiCalls THEN apiCalls[e].calls ELSE <<>>,
                          apiCalls'[e].calls) ]_vars

\* the limits were just enforced on more endpoints than allowed: the fifty
\* oldest of 550 endpoints are gone
C26_Witness ==
  /\ totalCallsCount = MAX_TOTAL_ENDPOINTS + EnforceEvery
  /\ Len(endpointOrder) = MAX_TOTAL_ENDPOINTS
  /\ endpointOrder[1] = <<Str.GET, <<"/">> \o numberToString(EnforceEvery + 1)>>

\* analyses the listeners have made of the requests so far: one once the
\* request headers were sent, two once the request completed
analysesOf(reqs) ==
  Cardinality({id \in DOMAIN reqs : reqs[id].stage \in {"sent", "completed"}})
  + Cardinality({id \in DOMAIN reqs : reqs[id].stage = "completed"})

\* analyses under the rate rule that fall inside the window ending at history[n]
activeInWindowOf(n) == {j \in inWindowOf(n) : history[j].active}

\* C27: with insufficient-rate-limiting enabled each analyzeCall appends
\* exactly one timestamp to the rate-table entry of the call's method+path, so
\* an exchange analysed at its request phase and at its response phase
\* contributes two entries, and the finding first appears once more than
\* threshold analyses, not exchanges, fall inside the window (on a call whose
\* request headers announce no rate limit).
C27_OneTimestampPerAnalysis ==
  /\ Len(history) = analysesOf(requests)
  /\ \A n \in 1..Len(history) :
        /\ ( history[n].active /\ \A j \in (n + 1)..Len(history) :
                                     ~(history[j].active /\ history[j].endpoint = history[n].endpoint) )
             => /\ history[n].endpoint \in DOMAIN callFrequency
                /\ Len(callFrequency[history[n].endpoint]) = Cardinality(activeInWindowOf(n))
        /\ history[n].findings > 0 => Cardinality(activeInWindowOf(n)) > Threshold
        /\ (history[n].active /\ ~history[n].requestLimit)
             => ( history[n].findings = 1 <=> Cardinality(activeInWindowOf(n)) > Threshold )

\* the finding appears at the request phase of the second exchange: the first
\* exchange has contributed two timestamps, the second one its first
C27_Witness ==
  /\ Len(requests) = 2
  /\ requests[1].stage = "completed"
  /\ requests[2].stage = "sent"
  /\ Len(history) = 3
  /\ \A n \in 1..3 : history[n].active /\ history[n].findings = (IF n = 3 THEN 1 ELSE 0)
  /\ Len(callFrequency[history[3].endpoint]) = 3

\* C28: after every rate-limit check the timestamp list stored for the call's
\* method+path contains only timestamps less than timeWindow old, and the
\* lists stored for every other method+path key are unchanged.
C28_OnlyRecentTimestampsStored ==
  [][ ( Len(history') > Len(history) /\ history'[Len(history')].active ) =>
        LET endpoint == history'[Len(history')].endpoint
        IN /\ DOMAIN callFrequency' = DOMAIN callFrequency \cup {endpoint}
           /\ \A i \in 1..Len(callFrequency'[endpoint]) :
                 /\ callFrequency'[endpoint][i] <= now
                 /\ now - callFrequency'[endpoint][i] < TimeWindow
           /\ \A key \in DOMAIN callFrequency :
                 key # endpoint => callFrequency'[key] = callFrequency[key] ]_vars

\* a check of one method+path has just stored its list while the list of
\* another method+path still holds timestamps that have left the window
C28_Witness ==
  /\ last.valid /\ "insufficient-rate-limiting" \in last.invoked
  /\ Len(history) > 0
  /\ LET endpoint == history[Len(history)].endpoint
     IN /\ endpoint \in DOMAIN callFrequency
        /\ callFrequency[endpoint] = <<now>>
        /\ \E key \in DOMAIN callFrequency :
              /\ key # endpoint
              /\ Len(callFrequency[key]) = 2
              /\ \A i \in 1..2 : now - callFrequency[key][i] >= TimeWindow

bodyFindings(vulns) == SelectSeq(vulns, LAMBDA v : v.ruleId \in BodyRules)

\* C29: the response-phase analysis of a call runs exactly once, when its
\* completion event fires; a response body attached to the call record after
\* that triggers no further analysis, so the body-based rules
\* (pii-in-response-body, verbose-error-messages) see the body only if it was
\* attached before completion.
C29_BodySeenOnlyBeforeCompletion ==
  [][ /\ Len(history') = analysesOf(requests')
      /\ (\E id \in DOMAIN requests : requests'[id].captured # requests[id].captured)
           => /\ history' = history
              /\ last' = last
              /\ \A e \in DOMAIN apiCalls :
                    /\ apiCalls'[e].securityIssues = apiCalls[e].securityIssues
                    /\ \A i \in 1..Len(apiCalls[e].calls) :
                          apiCalls'[e].calls[i].securityIssues = apiCalls[e].calls[i].securityIssues
      /\ \A e \in DOMAIN apiCalls' :
            \A i \in 1..Len(apiCalls'[e].calls) :
               bodyFindings(apiCalls'[e].calls[i].securityIssues) # <<>>
                 => requests'[apiCalls'[e].calls[i].requestId].bodyAt = "before" ]_vars

\* two completed calls hold the same body: the first received it before its
\* completion and carries findings of the body rules; the second was analysed
\* at its completion by the initialized analyzer, received the body
\* afterwards and carries none
C29_Witness ==
  /\ Len(requests) = 2
  /\ requests[1].stage = "completed" /\ requests[1].bodyAt = "before"
  /\ requests[2].stage = "completed" /\ requests[2].bodyAt = "after"
  /\ last.valid /\ last.initialized /\ last.call.requestId = 2 /\ last.call.status # 0
  /\ \E e1, e2 \in DOMAIN apiCalls :
        \E i \in 1..Len(apiCalls[e1].calls), j \in 1..Len(apiCalls[e2].calls) :
           /\ apiCalls[e1].calls[i].requestId = 1
           /\ apiCalls[e2].calls[j].requestId = 2
           /\ apiCalls[e1].calls[i].responseBody = apiCalls[e2].calls[j].responseBody
           /\ Len(bodyFindings(apiCalls[e1].calls[i].securityIssues)) = 2
           /\ bodyFindings(apiCalls[e2].calls[j].securityIssues) = <<>>
           /\ apiCalls[e2].calls[j].status = apiCalls[e1].calls[i].status

\* C30: every entry that onBeforeRequest adds to pendingRequests is removed
\* again, on the request's completion or on Clear, for every request that
\* completes, including when recording is switched off between the request's
\* start and its completion.
C30_PendingEntryRemoved ==
  \A id \in DOMAIN requests :
     requests[id].stage = "completed" => id \notin DOMAIN pendingRequests

====
